---- MODULE Spec2Model ----
(***************************************************************************)
(* Alert rule engine, alert lifecycle and reward ledger of the banking     *)
(* dashboard backend.                                                      *)
(*                                                                         *)
(* Conventions of the model                                                *)
(*  - time is an integer number of hours; day d starts at hour 24*d and    *)
(*    day 0 is 1 January of a non-leap year;                               *)
(*  - Python's None is the integer None (-1) for optional numbers and the  *)
(*    string NoneStr for optional enum values; Truthy/TruthyStr are        *)
(*    Python's truth tests `if x:` on them;                                *)
(*  - the amounts the rules read are whole dollars, the ledger's cents;    *)
(*  - the alerts table is a sequence, the primary key of a row being its   *)
(*    index (autoincrement from 1, no deletions are modelled); of its      *)
(*    columns the model keeps those the rules and the lifecycle read: the  *)
(*    texts and the acknowledged_at/resolved_at/updated_at stamps, which   *)
(*    nothing reads back, are left out.                                    *)
(***************************************************************************)
EXTENDS Integers, Sequences, FiniteSets, TLC

VARIABLES
    alerts,     \* the alerts table
    now,        \* the clock (hours)
    ticks,      \* how many times the clock has advanced
    db,         \* which rows of the accounts/transactions/budgets/bills tables exist
    last,       \* the most recent call on the alert interface and what it returned
    runs,       \* the concurrent check_and_generate_alerts runs in progress
    bills,      \* the bills the payment endpoints act on
    rewards,    \* the rewards table (the ledger)
    pays,       \* the concurrent mark_bill_as_paid requests in progress
    sweep,      \* the cleanup_expired_alerts task in progress
    points,     \* users.points, the stored points balance of each user
    calc        \* a calculate_points call: its arguments and what came of it

alertVars == <<alerts, now, ticks, db, last>>
ledgerVars == <<bills, rewards, pays>>
otherVars == <<sweep, points, calc>>

(***************************************************************************)
(* Bounds of the model                                                     *)
(***************************************************************************)
MaxAlerts == 2
MaxTicks == 1
MaxCents == 230
MaxStreak == 31
MaxPoints == 10100
MaxStatRows == 4
MaxStatDays == 4

(***************************************************************************)
(* Python values                                                           *)
(***************************************************************************)
None == -1
NoneStr == "None"
Truthy(x) == x # None /\ x # 0
TruthyStr(s) == s # NoneStr

Days(n) == n * 24
DateOf(t) == t \div 24

Min(a, b) == IF a <= b THEN a ELSE b
Abs(x) == IF x < 0 THEN 0 - x ELSE x

Users == {1, 2}

(***************************************************************************)
(* models/alert.py: the enumerations                                       *)
(***************************************************************************)
ACTIVE == "active"
RESOLVED == "resolved"
DISMISSED == "dismissed"
ARCHIVED == "archived"
AlertStatus == {ACTIVE, RESOLVED, DISMISSED, ARCHIVED}
Terminal == {RESOLVED, DISMISSED, ARCHIVED}

LARGE_TRANSACTION == "large_transaction"
LOW_BALANCE == "low_balance"
BUDGET_EXCEEDED == "budget_exceeded"
BUDGET_NEARING_LIMIT == "budget_nearing_limit"
UNUSUAL_SPENDING == "unusual_spending"
BILL_DUE == "bill_due"
SUBSCRIPTION_RENEWAL == "subscription_renewal"
CASH_FLOW_WARNING == "cash_flow_warning"

ET_TRANSACTION == "transaction"
ET_ACCOUNT == "account"
ET_BUDGET == "budget"
ET_BILL == "bill"

(***************************************************************************)
(* Program constants of services/alert_service.py and crud/alert.py        *)
(***************************************************************************)
LARGE_THRESHOLD == 1000
LARGE_LOOKBACK_DAYS == 7
DEDUP_HOURS == 24
LOW_BALANCE_PCT == 20
LOW_BALANCE_EXPIRES_DAYS == 7
BUDGET_NEAR_PCT == 90
UNUSUAL_LOOKBACK_DAYS == 30
UNUSUAL_MIN_EXPENSES == 10
UNUSUAL_MIN_CATEGORY == 5
UNUSUAL_DEDUP_DAYS == 2
BILLS_DAYS_AHEAD == 3
SUBS_DAYS_AHEAD == 7
DAYS_IN_MONTH == 30
RETENTION_DAYS == 30
BATCH_SIZE_DEFAULT == 1000

(***************************************************************************)
(* The calendar: first day of the month that day d lies in.                *)
(***************************************************************************)
MonthStarts == <<0, 31, 59, 90, 120, 151, 181, 212, 243, 273, 304, 334, 365>>
MonthOf(d) == CHOOSE m \in 1..12 : MonthStarts[m] <= d /\ d < MonthStarts[m + 1]
MonthStartDay(d) == MonthStarts[MonthOf(d)]

(***************************************************************************)
(* The user data the rules read.  The tables are fixed; db (chosen at      *)
(* start, never changed by the alert interface) says which rows exist.     *)
(* Columns are those alert_service.py reads.                               *)
(***************************************************************************)
StartTime == Days(10) + 9

Txn(u, amt, ty, cat, day, rec, recEnd, recNext) ==
    [user_id |-> u, amount |-> amt, transaction_type |-> ty, status |-> "completed",
     category |-> cat, date |-> Days(day), is_recurring |-> rec,
     recurrence_end_date |-> recEnd, recurrence_next_date |-> recNext]

ShopIds == 7..16

TxnTable ==
    [i \in 1..16 |->
        CASE i = 1 -> Txn(1, 1500, "income", "salary", 9, FALSE, None, None)
          [] i = 2 -> Txn(1, -15, "expense", "media", 3, TRUE, 300, 14)
          [] i = 3 -> Txn(1, 100, "income", "salary", 5, FALSE, None, None)
          [] i = 4 -> Txn(1, -200, "expense", "travel", 6, FALSE, None, None)
          [] i = 5 -> Txn(1, -120, "expense", "food", 7, FALSE, None, None)
          [] i = 6 -> Txn(1, -95, "expense", "fun", 7, FALSE, None, None)
          [] i = 16 -> Txn(2, -500, "expense", "shop", 8, FALSE, None, None)
          [] OTHER -> Txn(2, -10, "expense", "shop", 8, FALSE, None, None)]

AccountTable ==
    [i \in 1..2 |->
        IF i = 1
        THEN [user_id |-> 2, is_active |-> TRUE, account_type |-> "savings",
              balance |-> 100, credit_limit |-> 1000]
        ELSE [user_id |-> 2, is_active |-> TRUE, account_type |-> "CREDIT_CARD",
              balance |-> 0, credit_limit |-> 1000]]

BudgetTable ==
    [i \in 1..2 |->
        [user_id |-> 1, category |-> IF i = 1 THEN "food" ELSE "fun", amount |-> 100,
         month |-> 1, start_date |-> Days(0), end_date |-> Days(31)]]

BillTable ==
    [i \in 1..3 |->
        CASE i = 1 -> [user_id |-> 1, due_date |-> 11, is_active |-> TRUE, is_paid |-> FALSE]
          [] i = 2 -> [user_id |-> 1, due_date |-> 10, is_active |-> TRUE, is_paid |-> TRUE]
          [] i = 3 -> [user_id |-> 1, due_date |-> 12, is_active |-> FALSE, is_paid |-> FALSE]]

Rows(t, a, g, b) == [txns |-> t, accounts |-> a, budgets |-> g, bills |-> b]

Scenarios ==
    { Rows({}, {}, {}, {1, 2, 3}),
      Rows({2}, {1, 2}, {}, {}),
      Rows({3, 4}, {}, {}, {}),
      Rows({5, 6}, {}, {1, 2}, {}),
      Rows(ShopIds \cup {1}, {}, {}, {}) }

\* the rows of a query in the order the rules take them: by primary key (the
\* order decides only the ids the new alerts get)
RECURSIVE SeqOfSet(_)
SeqOfSet(S) ==
    IF S = {} THEN <<>>
    ELSE LET m == CHOOSE x \in S : \A y \in S : x <= y
         IN <<m>> \o SeqOfSet(S \ {m})

RECURSIVE SumOver(_, _)
SumOver(S, f) ==
    IF S = {} THEN 0
    ELSE LET x == CHOOSE y \in S : TRUE IN f[x] + SumOver(S \ {x}, f)

(***************************************************************************)
(* crud/alert.py                                                           *)
(***************************************************************************)
\* a lookup that matches alerts of every status
get_by_criteria_any_status(als, user_id, alert_type, entity_type, entity_id, created_after, active_only) ==
    { i \in DOMAIN als :
        /\ als[i].user_id = user_id
        /\ als[i].alert_type = alert_type
        /\ TruthyStr(entity_type) => als[i].entity_type = entity_type
        /\ Truthy(entity_id) => als[i].entity_id = entity_id
        /\ Truthy(created_after) => als[i].created_at >= created_after }

\* get_by_criteria: the rows the query matches (first() returns one of them,
\* or None when there is none)
get_by_criteria(als, user_id, alert_type, entity_type, entity_id, created_after, active_only) ==
    { i \in DOMAIN als :
        /\ als[i].user_id = user_id
        /\ als[i].alert_type = alert_type
        /\ TruthyStr(entity_type) => als[i].entity_type = entity_type
        /\ Truthy(entity_id) => als[i].entity_id = entity_id
        /\ Truthy(created_after) => als[i].created_at >= created_after
        /\ active_only => als[i].status = ACTIVE }

\* the row an insert stores: the given columns, the model's defaults for the rest
NewAlert(t, user_id, alert_type, severity, entity_type, entity_id, expires_at) ==
    [user_id |-> user_id, alert_type |-> alert_type, severity |-> severity,
     entity_type |-> entity_type, entity_id |-> entity_id,
     status |-> ACTIVE, is_read |-> FALSE,
     created_at |-> t, expires_at |-> expires_at]

create_user_alert(als, t, user_id, d) ==
    Append(als, NewAlert(t, user_id, d.alert_type, d.severity, d.entity_type,
                         d.entity_id, d.expires_at))

(***************************************************************************)
(* services/alert_service.py: the rule evaluators.  Each gives the drafts  *)
(* it reaches its dedup lookup (or, without one, its insert) with, in      *)
(* order; dedup is the look-back of that lookup in hours, None when the    *)
(* rule inserts without looking.                                           *)
(***************************************************************************)
Draft(ty, sev, et, eid, dedup, exp) ==
    [alert_type |-> ty, severity |-> sev, entity_type |-> et, entity_id |-> eid,
     dedup |-> dedup, expires_at |-> exp]

\* a rule whose dedup window is as long as its look-back
check_large_transactions_lookback_window(d, u, t) ==
    LET large == { i \in d.txns :
                     /\ TxnTable[i].user_id = u
                     /\ TxnTable[i].date >= t - Days(LARGE_LOOKBACK_DAYS)
                     /\ Abs(TxnTable[i].amount) >= LARGE_THRESHOLD
                     /\ TxnTable[i].status = "completed" }
        ids == SeqOfSet(large)
    IN [k \in 1..Len(ids) |->
          Draft(LARGE_TRANSACTION, "warning", ET_TRANSACTION, ids[k],
                Days(LARGE_LOOKBACK_DAYS), None)]

check_large_transactions(d, u, t) ==
    LET large == { i \in d.txns :
                     /\ TxnTable[i].user_id = u
                     /\ TxnTable[i].date >= t - Days(LARGE_LOOKBACK_DAYS)
                     /\ Abs(TxnTable[i].amount) >= LARGE_THRESHOLD
                     /\ TxnTable[i].status = "completed" }
        ids == SeqOfSet(large)
    IN [k \in 1..Len(ids) |->
          Draft(LARGE_TRANSACTION, "warning", ET_TRANSACTION, ids[k], DEDUP_HOURS, None)]

check_low_balances(d, u, t) ==
    LET low == { i \in d.accounts :
                   /\ AccountTable[i].user_id = u
                   /\ AccountTable[i].is_active
                   /\ AccountTable[i].account_type # "CREDIT_CARD"
                   /\ AccountTable[i].credit_limit > 0
                   /\ AccountTable[i].balance * 100
                        <= LOW_BALANCE_PCT * AccountTable[i].credit_limit }
        ids == SeqOfSet(low)
    IN [k \in 1..Len(ids) |->
          Draft(LOW_BALANCE, "warning", ET_ACCOUNT, ids[k], Days(1),
                t + Days(LOW_BALANCE_EXPIRES_DAYS))]

actual_spending(d, u, g) ==
    LET spent == { i \in d.txns :
                     /\ TxnTable[i].user_id = u
                     /\ TxnTable[i].category = BudgetTable[g].category
                     /\ TxnTable[i].transaction_type = "expense"
                     /\ TxnTable[i].date >= BudgetTable[g].start_date
                     /\ TxnTable[i].date <= BudgetTable[g].end_date
                     /\ TxnTable[i].status = "completed" }
    IN SumOver(spent, [i \in spent |-> Abs(TxnTable[i].amount)])

check_budget_exceeded(d, u, t) ==
    LET current == { g \in d.budgets :
                       /\ BudgetTable[g].user_id = u
                       /\ BudgetTable[g].month = MonthOf(DateOf(t)) }
        \* utilization = spending / amount * 100, 0 for a budget of 0
        over(g) == BudgetTable[g].amount > 0
                   /\ actual_spending(d, u, g) * 100 >= 100 * BudgetTable[g].amount
        near(g) == BudgetTable[g].amount > 0
                   /\ actual_spending(d, u, g) * 100 >= BUDGET_NEAR_PCT * BudgetTable[g].amount
        ids == SeqOfSet({ g \in current : over(g) \/ near(g) })
    IN [k \in 1..Len(ids) |->
          IF over(ids[k])
          THEN Draft(BUDGET_EXCEEDED, "critical", ET_BUDGET, ids[k], Days(1), None)
          ELSE Draft(BUDGET_NEARING_LIMIT, "warning", ET_BUDGET, ids[k], Days(1), None)]

\* amount > mean + 2.5 * stdev (sample standard deviation, stdev > 0) over the
\* amounts of set S, in exact arithmetic: with n = |S| and T the sum,
\* n*a - T > 0  and  4 * (n-1) * (n*a - T)^2 > 25 * SUM (n*x - T)^2
IsOutlier(i, S) ==
    LET n == Cardinality(S)
        amt == [j \in S |-> Abs(TxnTable[j].amount)]
        T == SumOver(S, amt)
        dev == [j \in S |-> (n * amt[j] - T) * (n * amt[j] - T)]
        SS == SumOver(S, dev)
    IN /\ SS > 0
       /\ n * amt[i] - T > 0
       /\ 4 * (n - 1) * dev[i] > 25 * SS

check_unusual_spending(d, u, t) ==
    LET expenses == { i \in d.txns :
                        /\ TxnTable[i].user_id = u
                        /\ TxnTable[i].transaction_type = "expense"
                        /\ TxnTable[i].date >= t - Days(UNUSUAL_LOOKBACK_DAYS)
                        /\ TxnTable[i].status = "completed" }
        inCategory(i) == { j \in expenses : TxnTable[j].category = TxnTable[i].category }
        unusual == { i \in expenses :
                       /\ Cardinality(inCategory(i)) >= UNUSUAL_MIN_CATEGORY
                       /\ IsOutlier(i, inCategory(i)) }
        ids == SeqOfSet(unusual)
    IN IF Cardinality(expenses) < UNUSUAL_MIN_EXPENSES THEN <<>>
       ELSE [k \in 1..Len(ids) |->
               Draft(UNUSUAL_SPENDING, "warning", ET_TRANSACTION, ids[k],
                     Days(UNUSUAL_DEDUP_DAYS), None)]

\* expires_at is the last instant of the due date; on the hour clock the test
\* expires_at <= now first holds at the start of the next day
check_bills_due(d, u, t) ==
    LET today == DateOf(t)
        due == { b \in d.bills :
                   /\ BillTable[b].user_id = u
                   /\ BillTable[b].is_active
                   /\ BillTable[b].due_date >= today
                   /\ BillTable[b].due_date <= today + BILLS_DAYS_AHEAD }
        ids == SeqOfSet(due)
        days_until_due(b) == BillTable[b].due_date - today
        severity(b) == IF days_until_due(b) = 0 THEN "critical"
                       ELSE IF days_until_due(b) = 1 THEN "warning" ELSE "info"
    IN [k \in 1..Len(ids) |->
          Draft(BILL_DUE, severity(ids[k]), ET_BILL, ids[k], Days(1),
                Days(BillTable[ids[k]].due_date + 1))]

check_subscription_renewals(d, u, t) ==
    LET today == DateOf(t)
        subs == { i \in d.txns :
                    /\ TxnTable[i].user_id = u
                    /\ TxnTable[i].is_recurring
                    /\ TxnTable[i].recurrence_end_date # None
                    /\ TxnTable[i].recurrence_end_date >= today
                    /\ TxnTable[i].recurrence_next_date # None
                    /\ TxnTable[i].recurrence_next_date >= today
                    /\ TxnTable[i].recurrence_next_date <= today + SUBS_DAYS_AHEAD }
        ids == SeqOfSet(subs)
        days_until_renewal(i) == TxnTable[i].recurrence_next_date - today
    IN [k \in 1..Len(ids) |->
          Draft(SUBSCRIPTION_RENEWAL,
                IF days_until_renewal(ids[k]) > 3 THEN "info" ELSE "warning",
                ET_TRANSACTION, ids[k], None, None)]

check_savings_goals(d, u, t) == <<>>

check_cash_flow_warnings(d, u, t) ==
    LET month_start == Days(MonthStartDay(DateOf(t)))
        inMonth(ty) == { i \in d.txns :
                           /\ TxnTable[i].user_id = u
                           /\ TxnTable[i].transaction_type = ty
                           /\ TxnTable[i].date >= month_start
                           /\ TxnTable[i].date <= t
                           /\ TxnTable[i].status = "completed" }
        income == SumOver(inMonth("income"), [i \in inMonth("income") |-> TxnTable[i].amount])
        expenses == SumOver(inMonth("expense"),
                            [i \in inMonth("expense") |-> Abs(TxnTable[i].amount)])
        days_passed == DateOf(t - month_start) + 1
        \* expenses > income * 1.2
        high == 5 * expenses > 6 * income
        \* expenses / days_passed * 30 > income * 1.5
        projected == 2 * DAYS_IN_MONTH * expenses > 3 * income * days_passed
        warn == Draft(CASH_FLOW_WARNING, "warning", NoneStr, None, None, None)
        crit == Draft(CASH_FLOW_WARNING, "critical", NoneStr, None, None, None)
    IN IF income > 0 /\ expenses > 0
       THEN (IF high THEN <<warn>> ELSE <<>>) \o (IF projected THEN <<crit>> ELSE <<>>)
       ELSE <<>>

\* one rule's loop body: the dedup lookup (when the rule has one) and the insert
StoreDraft(als, u, t, d) ==
    IF d.dedup # None
       /\ get_by_criteria(als, u, d.alert_type, d.entity_type, d.entity_id,
                          t - d.dedup, TRUE) # {}
    THEN als
    ELSE create_user_alert(als, t, u, d)

RECURSIVE StoreDrafts(_, _, _, _)
StoreDrafts(als, u, t, ds) ==
    IF ds = <<>> THEN als
    ELSE StoreDrafts(StoreDraft(als, u, t, Head(ds)), u, t, Tail(ds))

\* the drafts of one pass, in the order check_and_generate_alerts runs the rules
PassDrafts(d, u, t) ==
    check_large_transactions(d, u, t) \o check_low_balances(d, u, t)
      \o check_budget_exceeded(d, u, t) \o check_unusual_spending(d, u, t)
      \o check_bills_due(d, u, t) \o check_subscription_renewals(d, u, t)
      \o check_savings_goals(d, u, t) \o check_cash_flow_warnings(d, u, t)

\* the table after one pass run on its own; the rows past the old length are
\* generated_alerts
check_and_generate_alerts(als, d, u, t) == StoreDrafts(als, u, t, PassDrafts(d, u, t))

\* the evaluators in the order check_and_generate_alerts calls them
RuleCount == 8
RuleDrafts(k, d, u, t) ==
    CASE k = 1 -> check_large_transactions(d, u, t)
      [] k = 2 -> check_low_balances(d, u, t)
      [] k = 3 -> check_budget_exceeded(d, u, t)
      [] k = 4 -> check_unusual_spending(d, u, t)
      [] k = 5 -> check_bills_due(d, u, t)
      [] k = 6 -> check_subscription_renewals(d, u, t)
      [] k = 7 -> check_savings_goals(d, u, t)
      [] k = 8 -> check_cash_flow_warnings(d, u, t)

\* the drafts of the evaluators called before the k-th
RECURSIVE DraftsBefore(_, _, _, _)
DraftsBefore(k, d, u, t) ==
    IF k <= 1 THEN <<>>
    ELSE DraftsBefore(k - 1, d, u, t) \o RuleDrafts(k - 1, d, u, t)

\* a pass whose k-th evaluator raises (at its query, before it inserts): the
\* exception leaves check_and_generate_alerts, nothing catches it there; what
\* the earlier evaluators inserted is committed, the list is not returned
check_and_generate_alerts_raising(als, d, u, t, k) ==
    StoreDrafts(als, u, t, DraftsBefore(k, d, u, t))

(***************************************************************************)
(* crud/alert.py: the lifecycle operations.  Each gives the table after    *)
(* the call and the value returned (None for Python's None).               *)
(***************************************************************************)
Result(als, ret) == [alerts |-> als, ret |-> ret]

mark_as_read(als, alert_id, user_id) ==
    IF alert_id \notin DOMAIN als THEN Result(als, None)
    ELSE IF Truthy(user_id) /\ als[alert_id].user_id # user_id THEN Result(als, None)
    ELSE Result([als EXCEPT ![alert_id].is_read = TRUE], alert_id)

\* an UPDATE that marks the unread alerts of every user
mark_all_as_read_every_user(als, user_id) ==
    LET unread == { i \in DOMAIN als : ~als[i].is_read }
    IN Result([i \in DOMAIN als |->
                 IF i \in unread
                 THEN [als[i] EXCEPT !.is_read = TRUE]
                 ELSE als[i]],
              Cardinality(unread))

mark_all_as_read(als, user_id) ==
    LET unread == { i \in DOMAIN als : als[i].user_id = user_id /\ ~als[i].is_read }
    IN Result([i \in DOMAIN als |->
                 IF i \in unread
                 THEN [als[i] EXCEPT !.is_read = TRUE]
                 ELSE als[i]],
              Cardinality(unread))

mark_as_resolved(als, alert_id, user_id) ==
    IF alert_id \notin DOMAIN als THEN Result(als, None)
    ELSE IF Truthy(user_id) /\ als[alert_id].user_id # user_id THEN Result(als, None)
    ELSE Result([als EXCEPT ![alert_id].status = RESOLVED,
                            ![alert_id].is_read = TRUE], alert_id)

dismiss(als, alert_id, user_id) ==
    IF alert_id \notin DOMAIN als THEN Result(als, None)
    ELSE IF Truthy(user_id) /\ als[alert_id].user_id # user_id THEN Result(als, None)
    ELSE Result([als EXCEPT ![alert_id].status = DISMISSED,
                            ![alert_id].is_read = TRUE], alert_id)

\* the rows cleanup_expired's query matches
ExpiredRows(als, t, user_id) ==
    { i \in DOMAIN als :
        /\ als[i].expires_at # None
        /\ als[i].expires_at <= t
        /\ als[i].status = ACTIVE
        /\ Truthy(user_id) => als[i].user_id = user_id }

\* an UPDATE that archives the rows and leaves is_read as it was
ArchiveRowsKeepUnread(als, ids) ==
    [i \in DOMAIN als |->
       IF i \in ids THEN [als[i] EXCEPT !.status = ARCHIVED] ELSE als[i]]

\* UPDATE ... SET status = ARCHIVED, is_read = true WHERE id IN ids
ArchiveRows(als, ids) ==
    [i \in DOMAIN als |->
       IF i \in ids THEN [als[i] EXCEPT !.status = ARCHIVED, !.is_read = TRUE]
       ELSE als[i]]

\* cleanup_expired once its query (no ORDER BY, LIMIT batch_size) has returned
\* the rows `batch`
cleanup_expired(als, batch) ==
    IF batch = {} THEN Result(als, 0)
    ELSE Result(ArchiveRows(als, batch), Cardinality(batch))

\* bulk_update's UPDATE: the columns update_data names are set on the rows
\* with id IN alert_ids (of user_id, when that is given)
SetColumns(row, update_data) ==
    [f \in DOMAIN row |-> IF f \in DOMAIN update_data THEN update_data[f] ELSE row[f]]

bulk_update(als, alert_ids, update_data, user_id) ==
    LET rows == { i \in DOMAIN als :
                    /\ i \in alert_ids
                    /\ Truthy(user_id) => als[i].user_id = user_id }
    IN Result([i \in DOMAIN als |->
                 IF i \in rows THEN SetColumns(als[i], update_data) ELSE als[i]],
              Cardinality(rows))

(***************************************************************************)
(* services/alert_service.py: cleanup_old_alerts                           *)
(***************************************************************************)
cleanup_old_alerts(als, t, user_id, days_old) ==
    LET old == { i \in DOMAIN als :
                   /\ als[i].user_id = user_id
                   /\ als[i].created_at < t - Days(days_old)
                   /\ als[i].status = ACTIVE }
    IN Result([i \in DOMAIN als |->
                 IF i \in old THEN [als[i] EXCEPT !.status = ARCHIVED, !.is_read = TRUE]
                 ELSE als[i]],
              Cardinality(old))

(***************************************************************************)
(* api/v1/alerts.py: PATCH /{alert_id}.  404 and 403 are the strings       *)
(* returned; CRUDBase.update sets the fields the request gave.             *)
(***************************************************************************)
CRUDBase_update(row, obj_in) == SetColumns(row, obj_in)

update_alert(als, current_user, alert_id, alert_update) ==
    IF alert_id \notin DOMAIN als THEN Result(als, 404)
    ELSE IF als[alert_id].user_id # current_user THEN Result(als, 403)
    ELSE Result([als EXCEPT ![alert_id] = CRUDBase_update(als[alert_id], alert_update)],
                alert_id)

(***************************************************************************)
(* api/v1/alerts.py: POST /.  409 is the status of the HTTPException; the  *)
(* insert stores the columns of the request and the user id.               *)
(***************************************************************************)
create_alert(als, t, current_user, alert_in) ==
    IF get_by_criteria(als, current_user, alert_in.alert_type, alert_in.entity_type,
                       alert_in.entity_id, t - DEDUP_HOURS, TRUE) # {}
    THEN Result(als, 409)
    ELSE Result(Append(als, NewAlert(t, current_user, alert_in.alert_type,
                                     alert_in.severity, alert_in.entity_type,
                                     alert_in.entity_id, alert_in.expires_at)),
                Len(als) + 1)

(***************************************************************************)
(* The alert interface as actions.  last records the call: its name, the   *)
(* acting user id passed, an argument (batch_size), the time of the call,  *)
(* the value returned and the rows the call changed or inserted.           *)
(***************************************************************************)
Call(op, uid, arg, at, ret, touched) ==
    [op |-> op, uid |-> uid, arg |-> arg, at |-> at, ret |-> ret, touched |-> touched]
NoCall == Call("none", None, None, None, None, {})

Touched(old, new) ==
    { i \in DOMAIN new : i \notin DOMAIN old \/ old[i] # new[i] }

ActingIds == Users \cup {0}
AlertIds == 1..MaxAlerts
TickSteps == {36, Days(RETENTION_DAYS + 1)}
BatchSizes == {1, BATCH_SIZE_DEFAULT}
\* update_data / AlertUpdate bodies (exclude_unset: only the fields given)
UpdateDatas ==
    { [is_read |-> TRUE], [status |-> ACTIVE], [status |-> DISMISSED, is_read |-> TRUE] }
\* the id lists of a bulk request
IdLists == { {i} : i \in AlertIds } \cup {AlertIds}

Done(op, uid, arg, r) ==
    /\ alerts' = r.alerts
    /\ last' = Call(op, uid, arg, now, r.ret, Touched(alerts, r.alerts))
    /\ UNCHANGED <<now, ticks, db, runs, ledgerVars, otherVars>>

CheckAndGenerate(u) ==
    LET als == check_and_generate_alerts(alerts, db, u, now)
    IN /\ Len(als) <= MaxAlerts
       /\ Done("check_and_generate_alerts", u, None, Result(als, Len(als) - Len(alerts)))

\* a pass in which evaluator k raises
CheckAndGenerateRaising(u, k) ==
    LET als == check_and_generate_alerts_raising(alerts, db, u, now, k)
    IN /\ Len(als) <= MaxAlerts
       /\ Done("check_and_generate_alerts", u, k, Result(als, None))

MarkAsRead(id, uid) == Done("mark_as_read", uid, None, mark_as_read(alerts, id, uid))

MarkAllAsRead(u) == Done("mark_all_as_read", u, None, mark_all_as_read(alerts, u))

MarkAsResolved(id, uid) ==
    Done("mark_as_resolved", uid, None, mark_as_resolved(alerts, id, uid))

Dismiss(id, uid) == Done("dismiss", uid, None, dismiss(alerts, id, uid))

CleanupExpired(uid, batch_size) ==
    \E batch \in SUBSET ExpiredRows(alerts, now, uid) :
        /\ Cardinality(batch) = Min(batch_size, Cardinality(ExpiredRows(alerts, now, uid)))
        /\ Done("cleanup_expired", uid, batch_size, cleanup_expired(alerts, batch))

BulkUpdate(ids, update_data, uid) ==
    Done("bulk_update", uid, None, bulk_update(alerts, ids, update_data, uid))

UpdateAlert(u, id, alert_update) ==
    Done("update_alert", u, None, update_alert(alerts, u, id, alert_update))

\* main.py: the daily job
CleanupOldAlertsJob ==
    Done("cleanup_old_alerts_job", 0, None, cleanup_old_alerts(alerts, now, 0, RETENTION_DAYS))

CleanupOldAlerts(u) ==
    Done("cleanup_old_alerts", u, None, cleanup_old_alerts(alerts, now, u, RETENTION_DAYS))

Tick(d) ==
    /\ ticks < MaxTicks
    /\ now' = now + d
    /\ ticks' = ticks + 1
    /\ UNCHANGED <<alerts, db, last, runs, ledgerVars, otherVars>>

\* the caller has taken the result of the call; the interface is idle again
Return ==
    /\ last # NoCall
    /\ last' = NoCall
    /\ UNCHANGED <<alerts, now, ticks, db, runs, ledgerVars, otherVars>>

(***************************************************************************)
(* The reward ledger.  Amounts of the ledger are in cents (Numeric(10, 2)); *)
(* a multiplier is held as ten times its value.                            *)
(***************************************************************************)
BillIds == {1, 2}
MaxRewards == 2

InitBills ==
    [b \in BillIds |->
        IF b = 1
        THEN [user_id |-> 1, amount_usd |-> 5000, category |-> "rent",
              due_date |-> 9, is_paid |-> FALSE]
        ELSE [user_id |-> 2, amount_usd |-> 15, category |-> "subscription",
              due_date |-> 11, is_paid |-> FALSE]]

\* models/bill.py: Bill.is_overdue
is_overdue(bill, today) ==
    IF ~bill.is_paid /\ bill.due_date # None THEN bill.due_date < today ELSE FALSE

BASE_POINTS_PER_DOLLAR == 10
ON_TIME_MULTIPLIER == 15

category_multipliers(category) ==
    CASE category = "utilities" -> 10
      [] category = "rent" -> 12
      [] category = "mortgage" -> 12
      [] category = "credit_card" -> 15
      [] category = "loan" -> 13
      [] category = "insurance" -> 11
      [] category = "subscription" -> 8
      [] category = "education" -> 14
      [] category = "medical" -> 10
      [] category = "tax" -> 10
      [] OTHER -> 10

\* a streak table read from the lowest threshold up
streak_bonus_lowest_first(streak_days) ==
    IF streak_days >= 3 THEN 11 ELSE 10

\* the first streak threshold, from the highest down, that streak_days reaches
streak_bonus(streak_days) ==
    IF streak_days >= 30 THEN 15
    ELSE IF streak_days >= 15 THEN 13
    ELSE IF streak_days >= 7 THEN 12
    ELSE IF streak_days >= 3 THEN 11
    ELSE 10

\* Python's round(): num/den to the nearest integer, a tie to the even one
Round(num, den) ==
    LET q == num \div den
        r == num % den
    IN IF 2 * r > den THEN q + 1
       ELSE IF 2 * r < den THEN q
       ELSE IF q % 2 = 0 THEN q ELSE q + 1

Max(a, b) == IF a >= b THEN a ELSE b

(***************************************************************************)
(* Python's float: IEEE 754 binary64.  A natural number too wide for the   *)
(* integers of the model is a sequence of limbs (base 2^LimbBits, least    *)
(* significant first, no leading zero limb); a float is s * m * 2^e with   *)
(* s the sign and m of MantissaBits bits, or m empty for zero.             *)
(***************************************************************************)
LimbBits == 14
Limb == 2 ^ LimbBits
MantissaBits == 53

Dig(a, i) == IF i >= 1 /\ i <= Len(a) THEN a[i] ELSE 0

RECURSIVE Trim(_)
Trim(a) == IF a # <<>> /\ a[Len(a)] = 0 THEN Trim(SubSeq(a, 1, Len(a) - 1)) ELSE a

RECURSIVE BigOf(_)
BigOf(n) == IF n = 0 THEN <<>> ELSE <<n % Limb>> \o BigOf(n \div Limb)

RECURSIVE ToInt(_)
ToInt(a) == IF a = <<>> THEN 0 ELSE a[1] + Limb * ToInt(Tail(a))

RECURSIVE SmallBitLen(_)
SmallBitLen(d) == IF d = 0 THEN 0 ELSE 1 + SmallBitLen(d \div 2)

BitLen(a) == IF a = <<>> THEN 0 ELSE (Len(a) - 1) * LimbBits + SmallBitLen(a[Len(a)])

RECURSIVE ColSum(_, _, _, _)
ColSum(a, b, k, i) ==
    IF i > Len(a) THEN 0
    ELSE Dig(a, i) * Dig(b, k + 1 - i) + ColSum(a, b, k, i + 1)

RECURSIVE Carry(_, _, _, _)
Carry(a, b, k, c) ==
    IF k > Len(a) + Len(b) THEN <<>>
    ELSE LET v == ColSum(a, b, k, 1) + c
         IN <<v % Limb>> \o Carry(a, b, k + 1, v \div Limb)

BigMul(a, b) == IF a = <<>> \/ b = <<>> THEN <<>> ELSE Trim(Carry(a, b, 1, 0))

\* a * 2^s
BigShl(a, s) ==
    BigMul(a, [i \in 1..(s \div LimbBits + 1) |->
                  IF i = s \div LimbBits + 1 THEN 2 ^ (s % LimbBits) ELSE 0])

Bit(a, n) == (Dig(a, n \div LimbBits + 1) \div 2 ^ (n % LimbBits)) % 2

\* floor(a / 2^s)
BigShr(a, s) ==
    LET d == s \div LimbBits
        b == s % LimbBits
    IN Trim([i \in 1..Max(0, Len(a) - d) |->
               Dig(a, d + i) \div 2 ^ b + (Dig(a, d + i + 1) % 2 ^ b) * 2 ^ (LimbBits - b)])

RECURSIVE BigInc(_)
BigInc(a) ==
    IF a = <<>> THEN <<1>>
    ELSE IF a[1] + 1 < Limb THEN <<a[1] + 1>> \o Tail(a)
    ELSE <<0>> \o BigInc(Tail(a))

\* some bit of a below bit n is set
Sticky(a, n) ==
    \/ Dig(a, n \div LimbBits + 1) % 2 ^ (n % LimbBits) # 0
    \/ \E i \in 1..(n \div LimbBits) : Dig(a, i) # 0

\* a / 2^s to the nearest integer, a tie to the even one
BigShrRne(a, s) ==
    IF s = 0 THEN a
    ELSE LET q == BigShr(a, s)
         IN IF Bit(a, s - 1) = 1 /\ (Sticky(a, s - 1) \/ Dig(q, 1) % 2 = 1)
            THEN BigInc(q) ELSE q

\* quotient and remainder of a by the small number d, from the top limb down
RECURSIVE BigDivSmall(_, _)
BigDivSmall(a, d) ==
    IF a = <<>> THEN [q |-> <<>>, r |-> 0]
    ELSE LET hi == BigDivSmall(Tail(a), d)
             v == hi.r * Limb + a[1]
         IN [q |-> <<v \div d>> \o hi.q, r |-> v % d]

Float(s, m, e) == [s |-> s, m |-> m, e |-> e]
FloatZero == Float(1, <<>>, 0)

\* a mantissa one bit too wide (the carry out of a rounding) is halved
Normal(s, m, e) ==
    IF BitLen(m) > MantissaBits THEN Float(s, BigShr(m, 1), e + 1) ELSE Float(s, m, e)

\* the float nearest to n / d for n, d > 0
FloatOfRatio(n, d) ==
    LET L == BitLen(Trim(BigDivSmall(BigShl(BigOf(n), 64), d).q))
        t == 64 + MantissaBits - L
        qr == BigDivSmall(BigShl(BigOf(n), t), d)
        q == Trim(qr.q)
        up == 2 * qr.r > d \/ (2 * qr.r = d /\ Dig(q, 1) % 2 = 1)
    IN Normal(1, IF up THEN BigInc(q) ELSE q, 0 - t)

\* a literal such as 1.2 (12 / 10), or float(bill_amount) of an amount of n
\* cents (n / 100)
FloatOf(n, d) ==
    IF n = 0 THEN FloatZero
    ELSE IF n < 0 THEN [FloatOfRatio(0 - n, d) EXCEPT !.s = -1]
    ELSE FloatOfRatio(n, d)

\* x * y, rounded to nearest, a tie to the even mantissa
FloatMul(x, y) ==
    IF x.m = <<>> \/ y.m = <<>> THEN [FloatZero EXCEPT !.s = x.s * y.s]
    ELSE LET p == BigMul(x.m, y.m)
             s == BitLen(p) - MantissaBits
         IN Normal(x.s * y.s, BigShrRne(p, s), x.e + y.e + s)

\* Python's round(x) of a float: to the nearest integer, a tie to the even one
PyRound(x) ==
    IF x.m = <<>> THEN 0
    ELSE IF x.e >= 0 THEN x.s * ToInt(BigShl(x.m, x.e))
    ELSE x.s * ToInt(BigShrRne(x.m, 0 - x.e))

\* the multipliers as floats, by ten times their value
FloatTenths == [k \in 1..20 |-> FloatOf(k, 10)]

\* str.lower() on the category texts of the model
lower(category) ==
    CASE category = "RENT" -> "rent"
      [] category = "Rent" -> "rent"
      [] OTHER -> category

\* the multiplier applied to the late payment instead
on_time_factor_late(on_time_payment) ==
    IF on_time_payment THEN <<>> ELSE <<ON_TIME_MULTIPLIER>>

\* `if on_time_payment: points *= self.on_time_multiplier`
on_time_factor(on_time_payment) ==
    IF on_time_payment THEN <<ON_TIME_MULTIPLIER>> ELSE <<>>

\* the multipliers the try body applies to the base points, in its order
Factors(on_time_payment, category, streak_days) ==
    <<category_multipliers(lower(category))>>
        \o on_time_factor(on_time_payment)
        \o <<streak_bonus(streak_days)>>

RECURSIVE Product(_)
Product(ms) == IF ms = <<>> THEN 1 ELSE Head(ms) * Product(Tail(ms))

RECURSIVE FloatProduct(_, _)
FloatProduct(x, ms) ==
    IF ms = <<>> THEN x ELSE FloatProduct(FloatMul(x, FloatTenths[Head(ms)]), Tail(ms))

\* float(bill_amount) * base_points_per_dollar * multipliers, in floats
float_points(bill_amount, ms) ==
    FloatProduct(FloatMul(FloatOf(bill_amount, 100), FloatOf(BASE_POINTS_PER_DOLLAR, 1)), ms)

\* round(points).  The float product is within a few units of 2^-53 of the
\* exact product num / den, which is a multiple of 1 / den: when the exact
\* product is not a tie the float rounds as it does, and the integer
\* arithmetic gives the result; on a tie the float product itself, which may
\* have landed on either side, is rounded.
round_points(bill_amount, ms) ==
    LET num == bill_amount * BASE_POINTS_PER_DOLLAR * Product(ms)
        den == 100 * 10 ^ Len(ms)
    IN IF 2 * (num % den) = den THEN PyRound(float_points(bill_amount, ms))
       ELSE Round(num, den)

\* a calculate_points that returns round(points) without the floor of 1
calculate_points_no_floor(bill_amount, on_time_payment, category, streak_days) ==
    round_points(bill_amount, Factors(on_time_payment, category, streak_days))

\* services/reward_service.py: calculate_points, the try body, for an amount
\* of bill_amount cents and a category that is a str
calculate_points(bill_amount, on_time_payment, category, streak_days) ==
    Max(1, round_points(bill_amount, Factors(on_time_payment, category, streak_days)))

\* the except branch: max(1, round(float(bill_amount) * base_points_per_dollar))
fallback_points(bill_amount) == Max(1, round_points(bill_amount, <<>>))

(***************************************************************************)
(* calculate_points as its caller sees it.  bill_amount is a Python value: *)
(* a Decimal of so many cents, or a value float() does not take (a text    *)
(* that is not a number, None); category is a str or None (NoneStr).       *)
(***************************************************************************)
PyDecimal(cents) == [type |-> "Decimal", cents |-> cents]
PyText == [type |-> "str", cents |-> 0]
PyNone == [type |-> "NoneType", cents |-> 0]

Returned(value) == [raised |-> FALSE, value |-> value]
Raised == [raised |-> TRUE, value |-> 0]

\* float(bill_amount) raises in the try body and again in the except branch;
\* None.lower() raises in the try body only
RewardService_calculate_points(bill_amount, on_time_payment, category, streak_days) ==
    IF bill_amount.type # "Decimal" THEN Raised
    ELSE IF category = NoneStr THEN Returned(fallback_points(bill_amount.cents))
    ELSE Returned(calculate_points(bill_amount.cents, on_time_payment, category,
                                   streak_days))

(***************************************************************************)
(* The tier table and the tier resolver of RewardService.                  *)
(***************************************************************************)
BRONZE == "bronze"
SILVER == "silver"
GOLD == "gold"
PLATINUM == "platinum"
DIAMOND == "diamond"

\* self.tiers, in the order of the dict
TierNames == <<BRONZE, SILVER, GOLD, PLATINUM, DIAMOND>>
tiers ==
    [n \in {BRONZE, SILVER, GOLD, PLATINUM, DIAMOND} |->
        CASE n = BRONZE -> [min_points |-> 0, max_points |-> 499]
          [] n = SILVER -> [min_points |-> 500, max_points |-> 1999]
          [] n = GOLD -> [min_points |-> 2000, max_points |-> 4999]
          [] n = PLATINUM -> [min_points |-> 5000, max_points |-> 9999]
          [] n = DIAMOND -> [min_points |-> 10000, max_points |-> None]]

\* the test of the loop of get_current_tier on one tier
InTier(tier_info, total_points) ==
    IF tier_info.max_points = None THEN total_points >= tier_info.min_points
    ELSE tier_info.min_points <= total_points /\ total_points <= tier_info.max_points

\* a loop that takes max_points as exclusive
get_current_tier_exclusive_max(total_points) ==
    LET hits == { k \in DOMAIN TierNames :
                    /\ InTier(tiers[TierNames[k]], total_points)
                    /\ total_points # tiers[TierNames[k]].max_points }
    IN IF hits = {} THEN BRONZE
       ELSE TierNames[CHOOSE k \in hits : \A j \in hits : k <= j]

\* get_current_tier: the first tier of the table that holds total_points,
\* BRONZE when none does
get_current_tier(total_points) ==
    LET hits == { k \in DOMAIN TierNames : InTier(tiers[TierNames[k]], total_points) }
    IN IF hits = {} THEN BRONZE
       ELSE TierNames[CHOOSE k \in hits : \A j \in hits : k <= j]

\* get_next_tier: the tier after the current one in the table, None after
\* the last
get_next_tier(total_points) ==
    LET current_index == CHOOSE k \in DOMAIN TierNames :
                            TierNames[k] = get_current_tier(total_points)
    IN IF current_index < Len(TierNames) THEN TierNames[current_index + 1] ELSE NoneStr

\* a count taken from the end of the current tier
get_points_to_next_tier_from_max(total_points) ==
    IF ~TruthyStr(get_next_tier(total_points)) THEN None
    ELSE Max(0, tiers[get_current_tier(total_points)].max_points - total_points)

get_points_to_next_tier(total_points) ==
    IF ~TruthyStr(get_next_tier(total_points)) THEN None
    ELSE Max(0, tiers[get_next_tier(total_points)].min_points - total_points)

\* a < b for naturals in limbs
RECURSIVE BigLess(_, _)
BigLess(a, b) ==
    IF Len(a) # Len(b) THEN Len(a) < Len(b)
    ELSE IF a = <<>> THEN FALSE
    ELSE IF a[Len(a)] # b[Len(b)] THEN a[Len(a)] < b[Len(b)]
    ELSE BigLess(SubSeq(a, 1, Len(a) - 1), SubSeq(b, 1, Len(b) - 1))

\* x < y for positive floats (mantissas of the same width)
FloatLessPos(x, y) == x.e < y.e \/ (x.e = y.e /\ BigLess(x.m, y.m))

\* x < y for floats
FloatLess(x, y) ==
    IF x.m = <<>> THEN y.m # <<>> /\ y.s = 1
    ELSE IF y.m = <<>> THEN x.s = -1
    ELSE IF x.s # y.s THEN x.s = -1
    ELSE IF x.s = 1 THEN FloatLessPos(x, y)
    ELSE FloatLessPos(y, x)

\* min(100, x): the first of the smallest, 100 unless x < 100
MinHundred(x) == IF FloatLess(x, FloatOf(100, 1)) THEN x ELSE FloatOf(100, 1)

\* get_tier_progress: the keys of its dict that depend on total_points;
\* progress_percentage is a float (or the int 100, held as the float 100.0)
get_tier_progress(total_points) ==
    LET current_tier == get_current_tier(total_points)
        current_tier_info == tiers[current_tier]
        next_tier == get_next_tier(total_points)
        tier_range == current_tier_info.max_points - current_tier_info.min_points
        points_in_tier == total_points - current_tier_info.min_points
    IN [current_tier |-> current_tier,
        next_tier |-> next_tier,
        points_in_current_tier |-> points_in_tier,
        progress_percentage |->
            IF TruthyStr(next_tier)
            THEN IF tier_range > 0
                 THEN MinHundred(FloatMul(FloatOf(points_in_tier, tier_range),
                                          FloatOf(100, 1)))
                 ELSE FloatOf(100, 1)
            ELSE FloatOf(100, 1)]

\* crud/reward.py: the tier get_leaderboard attaches to a row
leaderboard_tier(total_points) ==
    IF total_points >= 10000 THEN DIAMOND
    ELSE IF total_points >= 5000 THEN PLATINUM
    ELSE IF total_points >= 2000 THEN GOLD
    ELSE IF total_points >= 500 THEN SILVER
    ELSE BRONZE

\* a Reward.tier whose lowest threshold is exclusive
Reward_tier_above(reward_points) ==
    IF reward_points > 500 THEN leaderboard_tier(reward_points) ELSE BRONZE

\* models/reward.py: Reward.tier
Reward_tier(reward_points) ==
    IF reward_points >= 10000 THEN DIAMOND
    ELSE IF reward_points >= 5000 THEN PLATINUM
    ELSE IF reward_points >= 2000 THEN GOLD
    ELSE IF reward_points >= 500 THEN SILVER
    ELSE BRONZE

\* crud/reward.py: CRUDReward.create, the row it inserts
reward_create(rws, t, obj_in) ==
    Append(rws, [user_id |-> obj_in.user_id, bill_id |-> obj_in.bill_id,
                 bill_amount |-> obj_in.bill_amount, points |-> obj_in.points,
                 category |-> obj_in.category,
                 on_time_payment |-> obj_in.on_time_payment, earned_at |-> t])

RewardsOfBill(rws, b) == { i \in DOMAIN rws : rws[i].bill_id = b }

\* crud/bill.py: CRUDBill.mark_as_paid and CRUDBill.update (is_paid)
mark_as_paid(bls, b) == [bls EXCEPT ![b].is_paid = TRUE]
bill_update(bls, b, obj_in) ==
    [bls EXCEPT ![b] = [f \in DOMAIN bls[b] |->
        IF f \in DOMAIN obj_in THEN obj_in[f] ELSE bls[b][f]]]

\* the reward mark_bill_as_paid builds from the refreshed bill
PaymentReward(bill, b, u, today) ==
    [user_id |-> u, bill_id |-> b, bill_amount |-> bill.amount_usd,
     points |-> calculate_points(bill.amount_usd, ~is_overdue(bill, today),
                                 bill.category, 0),
     category |-> bill.category, on_time_payment |-> ~is_overdue(bill, today)]

LedgerResult(bls, rws, ret) == [bills |-> bls, rewards |-> rws, ret |-> ret]

\* api/v1/bills.py: POST /{bill_id}/pay
mark_bill_as_paid(bls, rws, t, current_user, b) ==
    IF b \notin DOMAIN bls \/ bls[b].user_id # current_user
    THEN LedgerResult(bls, rws, 404)
    ELSE IF bls[b].is_paid THEN LedgerResult(bls, rws, b)
    ELSE LET updated == mark_as_paid(bls, b)
         IN IF RewardsOfBill(rws, b) = {}
            THEN LedgerResult(updated,
                              reward_create(rws, t,
                                  PaymentReward(updated[b], b, current_user, DateOf(t))),
                              b)
            ELSE LedgerResult(updated, rws, b)

\* api/v1/rewards.py: POST /process-bill-payment/{bill_id}.  The reward is
\* committed before user_crud.update_points, which CRUDUser does not have,
\* raises; the handler answers 400 either way.
process_bill_payment_reward(bls, rws, t, current_user, b, on_time_payment) ==
    IF b \notin DOMAIN bls \/ bls[b].user_id # current_user
    THEN LedgerResult(bls, rws, 400)
    ELSE LedgerResult(bls,
             reward_create(rws, t,
                 [user_id |-> current_user, bill_id |-> b,
                  bill_amount |-> bls[b].amount_usd,
                  points |-> calculate_points(bls[b].amount_usd, on_time_payment,
                                              bls[b].category, 0),
                  on_time_payment |-> on_time_payment,
                  category |-> bls[b].category]),
             400)

\* api/v1/rewards.py: POST /
create_reward(bls, rws, t, current_user, reward) ==
    LedgerResult(bls,
        reward_create(rws, t,
            [user_id |-> current_user, bill_id |-> reward.bill_id,
             bill_amount |-> reward.bill_amount,
             points |-> calculate_points(reward.bill_amount, reward.on_time_payment,
                                         reward.category, 0),
             on_time_payment |-> reward.on_time_payment,
             category |-> reward.category]),
        Len(rws) + 1)

\* api/v1/bills.py: PUT /{bill_id}
update_bill(bls, rws, current_user, b, bill_update_data) ==
    IF b \notin DOMAIN bls THEN LedgerResult(bls, rws, 404)
    ELSE IF bls[b].user_id # current_user THEN LedgerResult(bls, rws, 403)
    ELSE LedgerResult(bill_update(bls, b, bill_update_data), rws, b)

\* crud/reward.py: CRUDReward.get_total_points, SUM(points) of the user's
\* rewards, `or 0`
RECURSIVE get_total_points(_, _)
get_total_points(rws, user_id) ==
    IF rws = <<>> THEN 0
    ELSE (IF Head(rws).user_id = user_id THEN Head(rws).points ELSE 0)
         + get_total_points(Tail(rws), user_id)

\* crud/reward.py: get_user_reward_stats, the DISTINCT date(earned_at) of the
\* user's rewards
reward_dates(rws, user_id) ==
    { DateOf(rws[i].earned_at) : i \in { j \in DOMAIN rws : rws[j].user_id = user_id } }

\* ORDER BY date(earned_at) DESC
RECURSIVE DescSeqOfSet(_)
DescSeqOfSet(S) ==
    IF S = {} THEN <<>>
    ELSE LET m == CHOOSE x \in S : \A y \in S : y <= x
         IN <<m>> \o DescSeqOfSet(S \ {m})

\* the loop over streak_query from row i on; the loop ends at the first break
RECURSIVE StreakLoop(_, _, _, _, _)
StreakLoop(streak_query, i, streak, prev_date, current_date) ==
    IF i > Len(streak_query) THEN streak
    ELSE LET reward_date == streak_query[i]
         IN IF i = 1
            THEN IF reward_date = current_date \/ reward_date = current_date - 1
                 THEN StreakLoop(streak_query, i + 1, 1, reward_date, current_date)
                 ELSE streak
            ELSE IF reward_date = prev_date - 1
                 THEN StreakLoop(streak_query, i + 1, streak + 1, reward_date, current_date)
                 ELSE streak

\* a query without DISTINCT: one row per reward
RECURSIVE streak_query_every_row(_, _)
streak_query_every_row(rws, user_id) ==
    IF rws = <<>> THEN <<>>
    ELSE streak_query_every_row(SubSeq(rws, 1, Len(rws) - 1), user_id)
         \o (IF rws[Len(rws)].user_id = user_id
             THEN <<DateOf(rws[Len(rws)].earned_at)>> ELSE <<>>)

\* rows are inserted in the order of earned_at, so the reverse of the table
\* is in descending order of the date
RECURSIVE Reverse(_)
Reverse(q) == IF q = <<>> THEN <<>> ELSE Reverse(Tail(q)) \o <<Head(q)>>
get_user_reward_stats_every_row(rws, user_id, t) ==
    [streak_days |-> StreakLoop(Reverse(streak_query_every_row(rws, user_id)), 1, 0,
                                None, DateOf(t))]

\* get_user_reward_stats: the streak_days of its result
get_user_reward_stats(rws, user_id, t) ==
    [streak_days |-> StreakLoop(DescSeqOfSet(reward_dates(rws, user_id)), 1, 0,
                                None, DateOf(t))]

\* the reward db.delete(bill) finds through Bill.reward (uselist=False: one
\* row of those with the bill's id), None when there is none
LoadedRewards(rws, b) ==
    IF RewardsOfBill(rws, b) = {} THEN {None} ELSE RewardsOfBill(rws, b)

\* crud/bill.py: CRUDBill.remove.  Bill.reward cascades "all, delete-orphan":
\* the session deletes the loaded reward with the bill; on a reward the
\* session did not load the foreign key (ON DELETE SET NULL) clears bill_id.
\* The rewards table is the sequence of its rows by id: a deleted row leaves
\* the sequence.
remove(bls, rws, b, loaded) ==
    LET cleared == [i \in DOMAIN rws |->
                       IF rws[i].bill_id = b THEN [rws[i] EXCEPT !.bill_id = None]
                       ELSE rws[i]]
        kept == IF loaded = None THEN cleared
                ELSE SubSeq(cleared, 1, loaded - 1) \o SubSeq(cleared, loaded + 1, Len(cleared))
    IN LedgerResult([x \in DOMAIN bls \ {b} |-> bls[x]], kept, 204)

\* api/v1/bills.py: DELETE /{bill_id}
delete_bill(bls, rws, current_user, b, loaded) ==
    IF b \notin DOMAIN bls THEN LedgerResult(bls, rws, 404)
    ELSE IF bls[b].user_id # current_user THEN LedgerResult(bls, rws, 403)
    ELSE remove(bls, rws, b, loaded)

NoRuns == [p \in {} |-> 0]

\* no cleanup_expired_alerts task is running
IdleSweep == [pc |-> "idle", users |-> <<>>, pending |-> {}, event |-> "none"]

\* migration 003: users.points, server_default 0
InitPoints == [u \in Users |-> 0]

\* no calculate_points call has been made
NoCalc == [op |-> "none"]

vars == <<alerts, now, ticks, db, last, runs, bills, rewards, pays, sweep, points, calc>>

Init ==
    /\ alerts = <<>>
    /\ now = StartTime
    /\ ticks = 0
    /\ db \in Scenarios
    /\ last = NoCall
    /\ runs = NoRuns
    /\ bills = InitBills
    /\ rewards = <<>>
    /\ pays = NoRuns
    /\ sweep = IdleSweep
    /\ points = InitPoints
    /\ calc = NoCalc

\* the callers of the interface take turns: a call is made when the previous
\* one has returned
Idle == last = NoCall

Next ==
    \/ \E u \in Users : Idle /\ CheckAndGenerate(u)
    \/ \E u \in Users, k \in 1..RuleCount : Idle /\ CheckAndGenerateRaising(u, k)
    \/ \E id \in AlertIds, uid \in ActingIds : Idle /\ MarkAsRead(id, uid)
    \/ \E u \in Users : Idle /\ MarkAllAsRead(u)
    \/ \E id \in AlertIds, uid \in ActingIds : Idle /\ MarkAsResolved(id, uid)
    \/ \E id \in AlertIds, uid \in ActingIds : Idle /\ Dismiss(id, uid)
    \/ \E uid \in Users \cup {None}, b \in BatchSizes : Idle /\ CleanupExpired(uid, b)
    \/ \E ids \in IdLists, ud \in UpdateDatas, uid \in ActingIds :
          Idle /\ BulkUpdate(ids, ud, uid)
    \/ \E u \in Users, id \in AlertIds, ud \in UpdateDatas : Idle /\ UpdateAlert(u, id, ud)
    \/ Idle /\ CleanupOldAlertsJob
    \/ \E u \in Users : Idle /\ CleanupOldAlerts(u)
    \/ \E d \in TickSteps : Idle /\ Tick(d)
    \/ Return

Spec == Init /\ [][Next]_vars

(***************************************************************************)
(* The hourly generation job alone: passes, one at a time, and the clock.  *)
(***************************************************************************)
NextPasses ==
    \/ \E u \in Users : CheckAndGenerate(u)
    \/ \E d \in TickSteps : Tick(d)

SpecPasses == Init /\ [][NextPasses]_vars

(***************************************************************************)
(* Concurrent passes: the hourly worker and on-demand requests run         *)
(* check_and_generate_alerts in separate sessions.  A run takes its drafts *)
(* one at a time: the dedup lookup is one step (a committed read) and the  *)
(* insert, which create_user_alert commits, is another.                    *)
(***************************************************************************)
Procs == {1, 2}
MaxConcAlerts == 3

IdleRun == [pc |-> "idle", user_id |-> None, drafts |-> <<>>]

\* the run takes up its next draft, or ends when none is left
Advance(run, ds) ==
    [run EXCEPT !.drafts = ds, !.pc = IF ds = <<>> THEN "idle" ELSE "lookup"]

\* check_and_generate_alerts is entered for user u
StartPass(p, u) ==
    /\ runs[p].pc = "idle"
    /\ PassDrafts(db, u, now) # <<>>
    /\ runs' = [runs EXCEPT ![p] = Advance([IdleRun EXCEPT !.user_id = u],
                                           PassDrafts(db, u, now))]
    /\ UNCHANGED <<alertVars, ledgerVars, otherVars>>

\* existing = crud_alert.get_by_criteria(...); `if not existing:` (a rule
\* without the lookup goes straight to its insert)
Lookup(p) ==
    LET run == runs[p]
        d == Head(run.drafts)
    IN /\ run.pc = "lookup"
       /\ runs' = [runs EXCEPT ![p] =
            IF d.dedup # None
               /\ get_by_criteria(alerts, run.user_id, d.alert_type, d.entity_type,
                                  d.entity_id, now - d.dedup, TRUE) # {}
            THEN Advance(run, Tail(run.drafts))
            ELSE [run EXCEPT !.pc = "insert"]]
       /\ UNCHANGED <<alertVars, ledgerVars, otherVars>>

\* crud_alert.create_user_alert(...)
Insert(p) ==
    LET run == runs[p]
    IN /\ run.pc = "insert"
       /\ Len(alerts) < MaxConcAlerts
       /\ alerts' = create_user_alert(alerts, now, run.user_id, Head(run.drafts))
       /\ runs' = [runs EXCEPT ![p] = Advance(run, Tail(run.drafts))]
       /\ UNCHANGED <<now, ticks, db, last, ledgerVars, otherVars>>

InitConc ==
    /\ alerts = <<>>
    /\ now = StartTime
    /\ ticks = 0
    /\ db \in Scenarios
    /\ last = NoCall
    /\ runs = [p \in Procs |-> IdleRun]
    /\ bills = InitBills
    /\ rewards = <<>>
    /\ pays = NoRuns
    /\ sweep = IdleSweep
    /\ points = InitPoints
    /\ calc = NoCalc

NextConc ==
    \/ \E p \in Procs, u \in Users : StartPass(p, u)
    \/ \E p \in Procs : Lookup(p)
    \/ \E p \in Procs : Insert(p)

SpecConc == InitConc /\ [][NextConc]_vars

(***************************************************************************)
(* The payment and reward endpoints as actions, a request at a time.       *)
(* last.touched holds the ids of the rewards the call inserted.            *)
(***************************************************************************)
RewardCreates ==
    { [bill_id |-> b, bill_amount |-> 5000, category |-> "rent", on_time_payment |-> TRUE] :
        b \in {1, None} }
BillUpdates == { [is_paid |-> FALSE], [is_paid |-> TRUE] }

LedgerDone(op, uid, arg, r) ==
    /\ Len(r.rewards) <= MaxRewards
    /\ bills' = r.bills
    /\ rewards' = r.rewards
    /\ last' = Call(op, uid, arg, now, r.ret, DOMAIN r.rewards \ DOMAIN rewards)
    /\ UNCHANGED <<alerts, now, ticks, db, runs, pays, otherVars>>

MarkBillAsPaid(u, b) ==
    LedgerDone("mark_bill_as_paid", u, b, mark_bill_as_paid(bills, rewards, now, u, b))

ProcessBillPaymentReward(u, b, on_time_payment) ==
    LedgerDone("process_bill_payment_reward", u, b,
               process_bill_payment_reward(bills, rewards, now, u, b, on_time_payment))

CreateReward(u, reward) ==
    LedgerDone("create_reward", u, reward.bill_id,
               create_reward(bills, rewards, now, u, reward))

UpdateBill(u, b, bill_update_data) ==
    LedgerDone("update_bill", u, b, update_bill(bills, rewards, u, b, bill_update_data))

DeleteBill(u, b) ==
    \E loaded \in LoadedRewards(rewards, b) :
        LedgerDone("delete_bill", u, b, delete_bill(bills, rewards, u, b, loaded))

NoRows == Rows({}, {}, {}, {})

InitReward ==
    /\ alerts = <<>>
    /\ now = StartTime
    /\ ticks = 0
    /\ db = NoRows
    /\ last = NoCall
    /\ runs = NoRuns
    /\ bills = InitBills
    /\ rewards = <<>>
    /\ pays = NoRuns
    /\ sweep = IdleSweep
    /\ points = InitPoints
    /\ calc = NoCalc

NextReward ==
    \/ \E u \in Users, b \in BillIds : Idle /\ MarkBillAsPaid(u, b)
    \/ \E u \in Users, b \in BillIds, ot \in BOOLEAN :
          Idle /\ ProcessBillPaymentReward(u, b, ot)
    \/ \E u \in Users, r \in RewardCreates : Idle /\ CreateReward(u, r)
    \/ \E u \in Users, b \in BillIds, upd \in BillUpdates : Idle /\ UpdateBill(u, b, upd)
    \/ \E u \in Users, b \in BillIds : Idle /\ DeleteBill(u, b)
    \/ \E d \in TickSteps : Idle /\ Tick(d)
    \/ Return

SpecReward == InitReward /\ [][NextReward]_vars

(***************************************************************************)
(* Concurrent POST /{bill_id}/pay requests, each in its own session: the   *)
(* read of the bill with the ownership and is_paid checks, the commit of   *)
(* mark_as_paid, the existing-reward query and the reward insert are       *)
(* separate steps.                                                         *)
(***************************************************************************)
IdlePay == [pc |-> "idle", user_id |-> None, bill_id |-> None]

PayCheck(p, u, b) ==
    /\ pays[p].pc = "idle"
    /\ bills[b].user_id = u
    /\ ~bills[b].is_paid
    /\ pays' = [pays EXCEPT ![p] = [pc |-> "mark", user_id |-> u, bill_id |-> b]]
    /\ UNCHANGED <<alertVars, runs, bills, rewards, otherVars>>

PayMark(p) ==
    /\ pays[p].pc = "mark"
    /\ bills' = mark_as_paid(bills, pays[p].bill_id)
    /\ pays' = [pays EXCEPT ![p].pc = "lookup"]
    /\ UNCHANGED <<alertVars, runs, rewards, otherVars>>

PayLookup(p) ==
    /\ pays[p].pc = "lookup"
    /\ pays' = [pays EXCEPT ![p] =
                  IF RewardsOfBill(rewards, pays[p].bill_id) = {}
                  THEN [pays[p] EXCEPT !.pc = "insert"]
                  ELSE IdlePay]
    /\ UNCHANGED <<alertVars, runs, bills, rewards, otherVars>>

PayInsert(p) ==
    LET b == pays[p].bill_id
        bill == [bills[b] EXCEPT !.is_paid = TRUE]   \* the row as refreshed by PayMark
    IN /\ pays[p].pc = "insert"
       /\ Len(rewards) < MaxRewards
       /\ rewards' = reward_create(rewards, now,
                                   PaymentReward(bill, b, pays[p].user_id, DateOf(now)))
       /\ pays' = [pays EXCEPT ![p] = IdlePay]
       /\ UNCHANGED <<alertVars, runs, bills, otherVars>>

\* PUT /{bill_id} with is_paid = false, between payments
PayReopen(u, b) ==
    /\ bills[b].user_id = u
    /\ bills[b].is_paid
    /\ bills' = bill_update(bills, b, [is_paid |-> FALSE])
    /\ UNCHANGED <<alertVars, runs, rewards, pays, otherVars>>

InitPayConc ==
    /\ alerts = <<>>
    /\ now = StartTime
    /\ ticks = 0
    /\ db = NoRows
    /\ last = NoCall
    /\ runs = NoRuns
    /\ bills = InitBills
    /\ rewards = <<>>
    /\ pays = [p \in Procs |-> IdlePay]
    /\ sweep = IdleSweep
    /\ points = InitPoints
    /\ calc = NoCalc

NextPayConc ==
    \/ \E p \in Procs, u \in Users, b \in BillIds : PayCheck(p, u, b)
    \/ \E p \in Procs : PayMark(p)
    \/ \E p \in Procs : PayLookup(p)
    \/ \E p \in Procs : PayInsert(p)
    \/ \E u \in Users, b \in BillIds : PayReopen(u, b)

SpecPayConc == InitPayConc /\ [][NextPayConc]_vars

(***************************************************************************)
(* workers/alert_tasks.py: cleanup_expired_alerts.  The task holds one     *)
(* session for all its users.  cleanup_expired commits after its UPDATE,   *)
(* and returns without a commit when the user has no expired alert.  An    *)
(* exception in a user's iteration is caught and logged without a          *)
(* rollback: an UPDATE it interrupted stays in the session (sweep.pending) *)
(* until a later commit of the task writes it or the session is closed,    *)
(* which rolls it back.                                                    *)
(***************************************************************************)
\* the orders in which the users query (no ORDER BY) may return the users
SweepOrders ==
    { s \in [1..Cardinality(Users) -> Users] : \A i, j \in DOMAIN s : s[i] = s[j] => i = j }

\* a cleanup_expired whose query drops the user_id filter
sweep_user_every_user(als, t, user_id, pending) ==
    IF ExpiredRows(als, t, user_id) = {} THEN als
    ELSE ArchiveRows(als, pending \cup ExpiredRows(als, t, None))

\* the committed table after cleanup_expired(db, user_id=user.id) in a session
\* holding the uncommitted archivals `pending`
sweep_user(als, t, user_id, pending) ==
    IF ExpiredRows(als, t, user_id) = {} THEN als
    ELSE ArchiveRows(als, pending \cup ExpiredRows(als, t, user_id))

SweepStart(order) ==
    /\ sweep.pc = "idle"
    /\ sweep' = [pc |-> "running", users |-> order, pending |-> {}, event |-> "started"]
    /\ UNCHANGED <<alertVars, runs, ledgerVars, points, calc>>

\* one iteration of the loop, cleanup_expired returning normally
SweepUser ==
    /\ sweep.pc = "running"
    /\ sweep.users # <<>>
    /\ alerts' = sweep_user(alerts, now, Head(sweep.users), sweep.pending)
    /\ sweep' = [sweep EXCEPT !.users = Tail(sweep.users),
                              !.pending = IF ExpiredRows(alerts, now, Head(sweep.users)) = {}
                                          THEN sweep.pending ELSE {},
                              !.event = "cleaned"]
    /\ UNCHANGED <<now, ticks, db, last, runs, ledgerVars, points, calc>>

\* one iteration in which cleanup_expired raises, before its UPDATE or
\* between its UPDATE and its commit
SweepUserFails(updated) ==
    /\ sweep.pc = "running"
    /\ sweep.users # <<>>
    /\ sweep' = [sweep EXCEPT !.users = Tail(sweep.users),
                              !.pending = IF updated
                                          THEN sweep.pending
                                               \cup ExpiredRows(alerts, now, Head(sweep.users))
                                          ELSE sweep.pending,
                              !.event = "failed"]
    /\ UNCHANGED <<alertVars, runs, ledgerVars, points, calc>>

\* the task is terminated while a user is being processed: its session ends
\* and what it had not committed is rolled back
SweepCancel ==
    /\ sweep.pc = "running"
    /\ sweep.users # <<>>
    /\ sweep' = [pc |-> "idle", users |-> sweep.users, pending |-> {}, event |-> "cancelled"]
    /\ UNCHANGED <<alertVars, runs, ledgerVars, points, calc>>

\* the loop is over; after_return closes the session
SweepEnd ==
    /\ sweep.pc = "running"
    /\ sweep.users = <<>>
    /\ sweep' = [pc |-> "idle", users |-> <<>>, pending |-> {}, event |-> "done"]
    /\ UNCHANGED <<alertVars, runs, ledgerVars, points, calc>>

NextSweep ==
    \/ \E u \in Users : CheckAndGenerate(u)
    \/ \E d \in TickSteps : Tick(d)
    \/ \E order \in SweepOrders : SweepStart(order)
    \/ SweepUser
    \/ \E updated \in BOOLEAN : SweepUserFails(updated)
    \/ SweepCancel
    \/ SweepEnd

\* a bill of user 1 and a savings account of user 2: both users get an alert
\* that expires
SweepRows == Rows({}, {1}, {}, {1})

InitSweep ==
    /\ alerts = <<>>
    /\ now = StartTime
    /\ ticks = 0
    /\ db \in Scenarios \cup {SweepRows}
    /\ last = NoCall
    /\ runs = NoRuns
    /\ bills = InitBills
    /\ rewards = <<>>
    /\ pays = NoRuns
    /\ sweep = IdleSweep
    /\ points = InitPoints
    /\ calc = NoCalc

SpecSweep == InitSweep /\ [][NextSweep]_vars

(***************************************************************************)
(* calculate_points called once, on arguments of every kind.               *)
(***************************************************************************)
\* amounts in cents: a few negative ones, zero, every amount up to MaxCents
\* and some larger ones
AmountCents == {-100, -1} \cup 0..MaxCents \cup {500, 550, 5000, 10000}
BillAmounts == { PyDecimal(c) : c \in AmountCents } \cup {PyText, PyNone}
Categories ==
    {"utilities", "rent", "RENT", "credit_card", "loan", "insurance", "subscription",
     "education", "tax", "pets", NoneStr}
StreakDays == {0, 2, 3, 6, 7, 10, 14, 15, 29, 30, MaxStreak}

InitCalc ==
    /\ alerts = <<>>
    /\ now = StartTime
    /\ ticks = 0
    /\ db = NoRows
    /\ last = NoCall
    /\ runs = NoRuns
    /\ bills = InitBills
    /\ rewards = <<>>
    /\ pays = NoRuns
    /\ sweep = IdleSweep
    /\ points = InitPoints
    /\ calc \in { [op |-> "call", bill_amount |-> a, on_time_payment |-> ot,
                   category |-> c, streak_days |-> sd, raised |-> FALSE, value |-> 0] :
                  a \in BillAmounts, ot \in BOOLEAN, c \in Categories, sd \in StreakDays }

CalculatePoints ==
    LET r == RewardService_calculate_points(calc.bill_amount, calc.on_time_payment,
                                            calc.category, calc.streak_days)
    IN /\ calc.op = "call"
       /\ calc' = [calc EXCEPT !.op = "done", !.raised = r.raised, !.value = r.value]
       /\ UNCHANGED <<alertVars, runs, ledgerVars, sweep, points>>

NextCalc == CalculatePoints

SpecCalc == InitCalc /\ [][NextCalc]_vars

(***************************************************************************)
(* The tier resolver called on a point total.                              *)
(***************************************************************************)
PointTotals == {-100, -1} \cup 0..MaxPoints

TierCall(op, value) ==
    /\ calc.op = "total"
    /\ calc' = [op |-> op, total_points |-> calc.total_points, value |-> value]
    /\ UNCHANGED <<alertVars, runs, ledgerVars, sweep, points>>

GetCurrentTier == TierCall("get_current_tier", get_current_tier(calc.total_points))
GetNextTier == TierCall("get_next_tier", get_next_tier(calc.total_points))
GetPointsToNextTier ==
    TierCall("get_points_to_next_tier", get_points_to_next_tier(calc.total_points))
GetTierProgress == TierCall("get_tier_progress", get_tier_progress(calc.total_points))
LeaderboardTier == TierCall("leaderboard_tier", leaderboard_tier(calc.total_points))
RewardTier == TierCall("Reward_tier", Reward_tier(calc.total_points))

InitTier ==
    /\ alerts = <<>>
    /\ now = StartTime
    /\ ticks = 0
    /\ db = NoRows
    /\ last = NoCall
    /\ runs = NoRuns
    /\ bills = InitBills
    /\ rewards = <<>>
    /\ pays = NoRuns
    /\ sweep = IdleSweep
    /\ points = InitPoints
    /\ calc \in { [op |-> "total", total_points |-> t] : t \in PointTotals }

NextTier ==
    \/ GetCurrentTier
    \/ GetNextTier
    \/ GetPointsToNextTier
    \/ GetTierProgress
    \/ LeaderboardTier
    \/ RewardTier

SpecTier == InitTier /\ [][NextTier]_vars

(***************************************************************************)
(* Rewards earned over some days and the statistics of a user.             *)
(***************************************************************************)
StatSteps == {12, Days(2)}
StatReward == [bill_id |-> None, bill_amount |-> 100, category |-> "other",
               on_time_payment |-> TRUE]

\* POST /rewards: a reward earned now (earned_at is the server's now())
EarnReward(u) ==
    /\ calc = NoCalc
    /\ Len(rewards) < MaxStatRows
    /\ rewards' = create_reward(bills, rewards, now, u, StatReward).rewards
    /\ UNCHANGED <<alertVars, runs, bills, pays, otherVars>>

StatTick(d) ==
    /\ calc = NoCalc
    /\ now + d <= StartTime + Days(MaxStatDays)
    /\ now' = now + d
    /\ UNCHANGED <<alerts, ticks, db, last, runs, ledgerVars, otherVars>>

GetUserRewardStats(u) ==
    /\ calc = NoCalc
    /\ calc' = [op |-> "get_user_reward_stats", user_id |-> u, at |-> now,
                streak_days |-> get_user_reward_stats(rewards, u, now).streak_days]
    /\ UNCHANGED <<alertVars, runs, ledgerVars, sweep, points>>

NextStats ==
    \/ \E u \in Users : EarnReward(u)
    \/ \E d \in StatSteps : StatTick(d)
    \/ \E u \in Users : GetUserRewardStats(u)

SpecStats == InitReward /\ [][NextStats]_vars

(***************************************************************************)
(* Alerts posted through the API, dismissed, and the clock.                *)
(***************************************************************************)
\* AlertCreate bodies: with an entity, without one, and with entity_id 0
AlertIns ==
    { [alert_type |-> ty, severity |-> "info", entity_type |-> e[1], entity_id |-> e[2],
       expires_at |-> None] :
        ty \in {LARGE_TRANSACTION, BILL_DUE},
        e \in { <<NoneStr, None>>, <<ET_TRANSACTION, None>>, <<ET_TRANSACTION, 0>>,
                <<ET_TRANSACTION, 1>>, <<ET_TRANSACTION, 2>> } }

CreateAlert(u, alert_in) ==
    LET r == create_alert(alerts, now, u, alert_in)
    IN /\ Len(r.alerts) <= MaxAlerts
       /\ alerts' = r.alerts
       /\ calc' = [op |-> "create_alert", uid |-> u, alert_in |-> alert_in, at |-> now,
                   ret |-> r.ret]
       /\ UNCHANGED <<now, ticks, db, last, runs, ledgerVars, sweep, points>>

NextCreate ==
    \/ \E u \in Users, a \in AlertIns : CreateAlert(u, a)
    \/ \E id \in AlertIds, uid \in ActingIds : Dismiss(id, uid)
    \/ \E d \in TickSteps : Tick(d)

SpecCreate == InitReward /\ [][NextCreate]_vars

(***************************************************************************)
(* Passes, the calls that end an alert, and the clock.                     *)
(***************************************************************************)
NextDedup ==
    \/ \E u \in Users : CheckAndGenerate(u)
    \/ \E id \in AlertIds, uid \in ActingIds : MarkAsResolved(id, uid)
    \/ \E id \in AlertIds, uid \in ActingIds : Dismiss(id, uid)
    \/ \E uid \in Users \cup {None} : CleanupExpired(uid, BATCH_SIZE_DEFAULT)
    \/ \E d \in TickSteps : Tick(d)

SpecDedup == Init /\ [][NextDedup]_vars

(***************************************************************************)
(* Properties of the alert lifecycle and of the rule engine                *)
(***************************************************************************)
PASS == "check_and_generate_alerts"

\* C1: whatever the sequence of mark_as_read, mark_as_resolved, dismiss,
\* cleanup_expired and cleanup_old_alerts calls, an alert that is RESOLVED,
\* DISMISSED or ARCHIVED keeps its status.
C1_TerminalStatusKept ==
    [][ last'.op \in {"mark_as_read", "mark_as_resolved", "dismiss",
                      "cleanup_expired", "cleanup_old_alerts",
                      "cleanup_old_alerts_job"}
        => \A i \in DOMAIN alerts :
             alerts[i].status \in Terminal => alerts'[i].status = alerts[i].status ]_vars

\* C2: an alert that has left ACTIVE never becomes ACTIVE again, whichever
\* operation acts on it (update_alert and bulk_update included).
C2_NeverActiveAgain ==
    [][ \A i \in DOMAIN alerts :
          alerts[i].status # ACTIVE => alerts'[i].status # ACTIVE ]_vars

DedupWindow(alert_type) ==
    IF alert_type = UNUSUAL_SPENDING THEN Days(UNUSUAL_DEDUP_DAYS) ELSE DEDUP_HOURS

SameKey(a, b) ==
    /\ a.user_id = b.user_id
    /\ a.alert_type = b.alert_type
    /\ a.entity_type = b.entity_type
    /\ a.entity_id = b.entity_id

InWindow(a, t) == a.status = ACTIVE /\ a.created_at >= t - DedupWindow(a.alert_type)

\* C3: after any sequence of passes made one at a time, no key (user,
\* alert_type, entity_type, entity_id) has two ACTIVE alerts created within
\* the dedup window of its type.
C3_OneActivePerKey ==
    \A i, j \in DOMAIN alerts :
        (i # j /\ SameKey(alerts[i], alerts[j]))
            => ~(InWindow(alerts[i], now) /\ InWindow(alerts[j], now))

\* C4: a pass that follows a pass for the same user at once, the data
\* unchanged, creates no alert.
C4_SecondPassCreatesNothing ==
    [][ ( /\ last.op = PASS
          /\ last.at = now
          /\ now' = now
          /\ last'.op = PASS
          /\ last'.uid = last.uid )
        => Len(alerts') = Len(alerts) ]_vars

\* C8 as stated: after cleanup_expired(user_id = u) no alert of u is left
\* ACTIVE with expires_at <= now, the rows archived are ARCHIVED and read, and
\* the count returned is their number.
C8_AllExpiredArchived ==
    (last.op = "cleanup_expired" /\ Truthy(last.uid))
        => /\ ExpiredRows(alerts, now, last.uid) = {}
           /\ \A i \in last.touched :
                 alerts[i].status = ARCHIVED /\ alerts[i].is_read
           /\ last.ret = Cardinality(last.touched)

\* C8, amended: cleanup_expired archives min(batch_size, n) of the n expired
\* ACTIVE alerts in its scope (all of them when n <= batch_size): the rows it
\* changes were expired rows of that scope, are ARCHIVED and read afterwards,
\* and the count returned is their number.
C8_ExpiredArchivedUpToBatch ==
    last.op = "cleanup_expired"
        => /\ last.ret = Cardinality(last.touched)
           /\ last.ret <= last.arg
           /\ ExpiredRows(alerts, now, last.uid) = {} \/ last.ret = last.arg
           /\ \A i \in last.touched :
                 /\ alerts[i].status = ARCHIVED
                 /\ alerts[i].is_read
                 /\ alerts[i].expires_at # None /\ alerts[i].expires_at <= now
                 /\ Truthy(last.uid) => alerts[i].user_id = last.uid

\* a cleanup that stopped at its batch size and left expired alerts ACTIVE
C8_Witness ==
    /\ last.op = "cleanup_expired"
    /\ Truthy(last.uid)
    /\ last.ret = 1
    /\ \E i \in last.touched : alerts[i].status = ARCHIVED /\ alerts[i].is_read
    /\ ExpiredRows(alerts, now, last.uid) # {}

OldActive(als, t) ==
    { i \in DOMAIN als :
        als[i].status = ACTIVE /\ als[i].created_at < t - Days(RETENTION_DAYS) }

\* C9: a run of the scheduled cleanup_old_alerts job leaves no ACTIVE alert
\* older than 30 days, of any user, and changes no other alert.
C9_JobArchivesOld ==
    last.op = "cleanup_old_alerts_job"
        => /\ OldActive(alerts, now) = {}
           /\ \A i \in last.touched :
                 /\ alerts[i].status = ARCHIVED
                 /\ alerts[i].created_at < now - Days(RETENTION_DAYS)

\* C10: mark_as_read, mark_as_resolved, dismiss and bulk_update, called on
\* behalf of a user, change no alert of another user, whatever acting
\* user_id is passed.
C10_OwnAlertsOnly ==
    (last.op \in {"mark_as_read", "mark_as_resolved", "dismiss", "bulk_update"}
       /\ last.uid # None)
        => \A i \in last.touched : alerts[i].user_id = last.uid

\* the alert types whose rule makes the dedup lookup before it inserts
LookupTypes ==
    {LARGE_TRANSACTION, LOW_BALANCE, BUDGET_EXCEEDED, BUDGET_NEARING_LIMIT,
     UNUSUAL_SPENDING, BILL_DUE}

\* C5: two concurrent passes for the same user, interleaved between the
\* get_by_criteria lookup and the create_user_alert insert, never both insert
\* an ACTIVE alert for the same (user, alert_type, entity_type, entity_id);
\* stated for the rules that make the lookup.
C5_NoConcurrentDuplicate ==
    \A i, j \in DOMAIN alerts :
        (/\ i < j
         /\ alerts[i].alert_type \in LookupTypes
         /\ alerts[i].status = ACTIVE
         /\ alerts[j].status = ACTIVE)
            => ~SameKey(alerts[i], alerts[j])

\* C6: after any sequence of reward-recording calls made one at a time
\* (mark_bill_as_paid, process_bill_payment_reward, create_reward with the
\* bill's id, also after the bill was set back to unpaid) no bill has more
\* than the one RewardEntry.
C6_OneRewardPerBill ==
    \A b \in BillIds : Cardinality(RewardsOfBill(rewards, b)) <= 1

\* C7: concurrent mark_bill_as_paid requests for the same unpaid bill, however
\* interleaved between the is_paid check, the existing-reward lookup and the
\* reward insert, leave at most one RewardEntry for it: no two rows of the
\* ledger name the same bill.
C7_ConcurrentPayOneReward ==
    \A i, j \in DOMAIN rewards : i < j => rewards[i].bill_id # rewards[j].bill_id

UnreadOf(als, u) == { i \in DOMAIN als : als[i].user_id = u /\ ~als[i].is_read }

\* C11: mark_all_as_read(user), in its one step, sets is_read on every unread
\* alert of that user, returns the number of that user's alerts that were
\* unread before the call, and leaves every status and every other user's
\* alerts as they were.
C11_MarkAllAsReadFrame ==
    [][ (last = NoCall /\ last'.op = "mark_all_as_read")
        => /\ last'.ret = Cardinality(UnreadOf(alerts, last'.uid))
           /\ DOMAIN alerts' = DOMAIN alerts
           /\ UnreadOf(alerts', last'.uid) = {}
           /\ \A i \in DOMAIN alerts :
                 /\ alerts'[i].status = alerts[i].status
                 /\ alerts[i].user_id # last'.uid => alerts'[i] = alerts[i]
                 /\ alerts[i].is_read => alerts'[i] = alerts[i]
                 /\ alerts'[i] = [alerts[i] EXCEPT !.is_read = alerts'[i].is_read] ]_vars

\* a call that marked an alert while an unread alert of another user exists
C11_Witness ==
    /\ last.op = "mark_all_as_read"
    /\ last.ret >= 1
    /\ last.ret = Cardinality(last.touched)
    /\ \E i \in DOMAIN alerts : alerts[i].user_id # last.uid /\ ~alerts[i].is_read

\* the drafts of every evaluator but the k-th, in order
RECURSIVE DraftsExcept(_, _, _, _, _)
DraftsExcept(k, n, d, u, t) ==
    IF n = 0 THEN <<>>
    ELSE DraftsExcept(k, n - 1, d, u, t)
           \o (IF n = k THEN <<>> ELSE RuleDrafts(n, d, u, t))

\* C12: when one evaluator of a pass raises, the other evaluators still run
\* and what they create is persisted: the table after the pass is the one the
\* evaluators other than the failed one leave.
C12_RuleFailureIsolated ==
    [][ (last = NoCall /\ last'.op = PASS /\ last'.arg # None)
        => alerts' = StoreDrafts(alerts, last'.uid, now,
                                 DraftsExcept(last'.arg, RuleCount, db, last'.uid, now)) ]_vars

SeqRange(s) == { s[i] : i \in DOMAIN s }

\* C13: when the cleanup_expired_alerts sweep fails or is cancelled while
\* processing one user, the table is left as committed so far (the archivals
\* of the users processed before persist), no step of the sweep changes an
\* alert of a user it has not yet processed, and a row the sweep changes goes
\* from ACTIVE to ARCHIVED with is_read = true, nothing else of it changing.
C13_SweepFailureSafe ==
    [][ sweep' # sweep
        => /\ DOMAIN alerts' = DOMAIN alerts
           /\ sweep'.event \in {"failed", "cancelled"} => alerts' = alerts
           /\ \A i \in DOMAIN alerts :
                /\ alerts[i].user_id \in SeqRange(sweep'.users) => alerts'[i] = alerts[i]
                /\ \/ alerts'[i] = alerts[i]
                   \/ /\ alerts[i].status = ACTIVE
                      /\ alerts'[i] = [alerts[i] EXCEPT !.status = ARCHIVED,
                                                        !.is_read = TRUE] ]_vars

\* the sweep has failed on a user whose expired alert is still ACTIVE, after
\* it archived the alert of the user before
C13_Witness ==
    /\ sweep.event = "failed"
    /\ \E i, j \in DOMAIN alerts :
          /\ alerts[i].user_id # alerts[j].user_id
          /\ alerts[i].status = ARCHIVED /\ alerts[i].is_read
          /\ j \in ExpiredRows(alerts, now, alerts[j].user_id)
          /\ ~alerts[j].is_read

\* C14: deleting a bill that has a reward leaves every reward in the ledger,
\* those of the bill with bill_id cleared, and every user's total_points as
\* it was before the deletion.
C14_DeleteBillKeepsReward ==
    [][ (last = NoCall /\ last'.op = "delete_bill" /\ last'.ret = 204)
        => /\ rewards' = [i \in DOMAIN rewards |->
                            IF rewards[i].bill_id = last'.arg
                            THEN [rewards[i] EXCEPT !.bill_id = None]
                            ELSE rewards[i]]
           /\ \A u \in Users :
                get_total_points(rewards', u) = get_total_points(rewards, u) ]_vars

\* C15: a call of mark_bill_as_paid or process_bill_payment_reward that
\* records a reward raises the stored points balance of the reward's user by
\* the points of the new entry.
C15_BalanceFollowsRewards ==
    [][ (last = NoCall /\ last'.op \in {"mark_bill_as_paid", "process_bill_payment_reward"})
        => \A i \in last'.touched :
              points'[rewards'[i].user_id]
                 = points[rewards'[i].user_id] + rewards'[i].points ]_vars

(***************************************************************************)
(* Properties of calculate_points                                          *)
(***************************************************************************)
\* the call has returned, for a Decimal amount and a category that is a str
Calculated ==
    /\ calc.op = "done"
    /\ calc.bill_amount.type = "Decimal"
    /\ calc.category # NoneStr

\* C16: calculate_points returns an integer >= 1 for every amount (positive,
\* zero or negative), every category, either on_time flag and every
\* streak_days.
C16_PointsAtLeastOne ==
    Calculated => ~calc.raised /\ calc.value \in Int /\ calc.value >= 1

\* a non-positive amount has been given its one point
C16_Witness ==
    Calculated /\ calc.bill_amount.cents <= 0 /\ calc.on_time_payment /\ calc.value = 1

\* num / den to the nearest integer, a tie to the next higher one
RoundHalfUp(num, den) == (2 * num + den) \div (2 * den)

\* C17: the result is the product amount x 10 x category multiplier x on-time
\* multiplier x streak multiplier rounded to the nearest integer, a tie going
\* to the next higher integer (and floored at 1).
C17_TiesHalfUp ==
    Calculated
    => LET ms == Factors(calc.on_time_payment, calc.category, calc.streak_days)
       IN calc.value = Max(1, RoundHalfUp(calc.bill_amount.cents * BASE_POINTS_PER_DOLLAR
                                             * Product(ms),
                                          100 * 10 ^ Len(ms)))

\* the largest threshold of the streak table that streak_days reaches, 0 when
\* it reaches none, and the multiplier (times ten) the table gives it
LargestThreshold(streak_days) ==
    LET reached == { t \in {3, 7, 15, 30} : t <= streak_days }
    IN IF reached = {} THEN 0 ELSE CHOOSE t \in reached : \A u \in reached : u <= t
MultiplierAt(threshold) ==
    CASE threshold = 3 -> 11 [] threshold = 7 -> 12 [] threshold = 15 -> 13
      [] threshold = 30 -> 15 [] OTHER -> 10

\* C18: one streak multiplier is applied, that of the largest threshold in
\* {3, 7, 15, 30} that is <= streak_days (1.0 below 3), after the category and
\* on-time multipliers; 100.00, rent, on time, streak 10 gives 2160 points.
C18_OneStreakMultiplier ==
    Calculated
    => /\ calc.value =
            Max(1, round_points(calc.bill_amount.cents,
                      <<category_multipliers(lower(calc.category))>>
                         \o (IF calc.on_time_payment THEN <<ON_TIME_MULTIPLIER>> ELSE <<>>)
                         \o <<MultiplierAt(LargestThreshold(calc.streak_days))>>))
       /\ (/\ calc.bill_amount.cents = 10000
           /\ calc.category = "rent"
           /\ calc.on_time_payment
           /\ calc.streak_days = 10) => calc.value = 2160

C18_Witness ==
    /\ Calculated
    /\ calc.bill_amount.cents = 10000
    /\ calc.category = "rent"
    /\ calc.on_time_payment
    /\ calc.streak_days = 10
    /\ calc.value = 2160

\* C19: for a fixed amount and category the result with on_time_payment =
\* true is never lower than with false, and the result does not decrease
\* when streak_days increases.
C19_BonusMonotone ==
    Calculated
    => /\ calculate_points(calc.bill_amount.cents, TRUE, calc.category, calc.streak_days)
            >= calculate_points(calc.bill_amount.cents, FALSE, calc.category,
                                calc.streak_days)
       /\ \A sd \in StreakDays :
            sd >= calc.streak_days
            => calculate_points(calc.bill_amount.cents, calc.on_time_payment,
                                calc.category, sd) >= calc.value

\* a late payment without streak that both bonuses would have raised
C19_Witness ==
    /\ Calculated
    /\ ~calc.on_time_payment
    /\ calc.streak_days = 0
    /\ calculate_points(calc.bill_amount.cents, TRUE, calc.category, 0) > calc.value
    /\ calculate_points(calc.bill_amount.cents, FALSE, calc.category, 3) > calc.value

\* C20: calculate_points never raises to its caller: whatever bill_amount
\* (also one that cannot be coerced to a number) and category it is given, it
\* returns an integer >= 1.
C20_NeverRaises ==
    calc.op = "done" => ~calc.raised /\ calc.value >= 1

(***************************************************************************)
(* Properties of the tier resolver                                         *)
(***************************************************************************)
\* the tier of the claimed ranges that holds a non-negative total
RangeTier(t) ==
    IF t <= 499 THEN BRONZE
    ELSE IF t <= 1999 THEN SILVER
    ELSE IF t <= 4999 THEN GOLD
    ELSE IF t <= 9999 THEN PLATINUM
    ELSE DIAMOND
TierAbove(tier) ==
    CASE tier = BRONZE -> SILVER [] tier = SILVER -> GOLD [] tier = GOLD -> PLATINUM
      [] tier = PLATINUM -> DIAMOND [] OTHER -> NoneStr

\* C21: for a non-negative total exactly one tier's range contains it and
\* get_current_tier returns that tier (0-499 BRONZE, 500-1999 SILVER,
\* 2000-4999 GOLD, 5000-9999 PLATINUM, 10000 and above DIAMOND);
\* get_next_tier returns the tier immediately above, none for DIAMOND.
C21_TierPartition ==
    (calc.op \in {"get_current_tier", "get_next_tier"} /\ calc.total_points >= 0)
    => /\ Cardinality({ n \in DOMAIN tiers : InTier(tiers[n], calc.total_points) }) = 1
       /\ calc.op = "get_current_tier"
            => /\ calc.value = RangeTier(calc.total_points)
               /\ InTier(tiers[calc.value], calc.total_points)
       /\ calc.op = "get_next_tier" => calc.value = TierAbove(RangeTier(calc.total_points))

\* the last total of a range has been resolved
C21_Witness ==
    calc.op = "get_current_tier" /\ calc.total_points = 1999 /\ calc.value = SILVER

\* C22: when get_next_tier(t) exists, get_points_to_next_tier(t) + t is the
\* min_points of that tier (t = 1750 gives 250); when none exists
\* get_points_to_next_tier returns none.
C22_PointsToNextTier ==
    calc.op = "get_points_to_next_tier"
    => /\ TruthyStr(get_next_tier(calc.total_points))
            => calc.value + calc.total_points
                  = tiers[get_next_tier(calc.total_points)].min_points
       /\ ~TruthyStr(get_next_tier(calc.total_points)) => calc.value = None
       /\ calc.total_points = 1750 => calc.value = 250

C22_Witness ==
    calc.op = "get_points_to_next_tier" /\ calc.total_points = 1750 /\ calc.value = 250

\* C23: for every integer total_points progress_percentage lies between 0 and
\* 100 inclusive, is (total_points - current.min_points) / (current.max_points
\* - current.min_points) x 100 clamped to 100, and is 100 in the top tier.
C23_ProgressInRange ==
    calc.op = "get_tier_progress"
    => LET p == calc.value.progress_percentage
           info == tiers[get_current_tier(calc.total_points)]
       IN /\ ~FloatLess(p, FloatZero)
          /\ ~FloatLess(FloatOf(100, 1), p)
          /\ info.max_points = None => p = FloatOf(100, 1)
          /\ info.max_points # None
               => p = MinHundred(FloatMul(FloatOf(calc.total_points - info.min_points,
                                                  info.max_points - info.min_points),
                                          FloatOf(100, 1)))

\* C24: for every point total the tier get_leaderboard attaches, the tier of
\* the Reward.tier property and the tier get_current_tier returns are the
\* same.
C24_TierClassificationsAgree ==
    /\ calc.op = "leaderboard_tier" => calc.value = get_current_tier(calc.total_points)
    /\ calc.op = "Reward_tier" => calc.value = get_current_tier(calc.total_points)

\* a threshold total has been classified by Reward.tier
C24_Witness ==
    calc.op = "Reward_tier" /\ calc.total_points = 500 /\ calc.value = SILVER

(***************************************************************************)
(* Properties of the reward statistics                                     *)
(***************************************************************************)
\* the days on which the user of the call has a reward
StatDays == { DateOf(rewards[i].earned_at) :
                i \in { j \in DOMAIN rewards : rewards[j].user_id = calc.user_id } }
LatestDay == CHOOSE d \in StatDays : \A e \in StatDays : e <= d
\* n days ending at the latest reward day all have a reward
RunOf(n) == \A k \in 0..(n - 1) : (LatestDay - k) \in StatDays

\* C25: streak_days is 0 when the most recent reward day is neither today nor
\* yesterday; otherwise it is the length of the maximal run of consecutive
\* calendar days, each with at least one reward, that ends at the most recent
\* reward day (the run stops at the first gap; several rewards of one day
\* count once).
C25_StreakDays ==
    calc.op = "get_user_reward_stats"
    => IF StatDays = {} THEN calc.streak_days = 0
       ELSE IF LatestDay \notin {DateOf(calc.at), DateOf(calc.at) - 1}
            THEN calc.streak_days = 0
       ELSE /\ calc.streak_days >= 1
            /\ RunOf(calc.streak_days)
            /\ ~RunOf(calc.streak_days + 1)

\* a streak of two days, the first of them with two rewards, behind a gap
C25_Witness ==
    /\ calc.op = "get_user_reward_stats"
    /\ calc.streak_days = 2
    /\ Cardinality(StatDays) = 3
    /\ \E i, j \in DOMAIN rewards :
          /\ i # j
          /\ rewards[i].user_id = calc.user_id
          /\ rewards[j].user_id = calc.user_id
          /\ DateOf(rewards[i].earned_at) = DateOf(rewards[j].earned_at)
          /\ DateOf(rewards[i].earned_at) = LatestDay - 1
          /\ rewards[i].earned_at # rewards[j].earned_at

\* the most recent reward is older than yesterday
C25_WitnessStale ==
    /\ calc.op = "get_user_reward_stats"
    /\ StatDays # {}
    /\ LatestDay < DateOf(calc.at) - 1
    /\ calc.streak_days = 0

(***************************************************************************)
(* Properties of the bills-due rule and of the dedup lookup                *)
(***************************************************************************)
\* the bill_due alerts for bill b that the last pass stored
NewBillDue(b) ==
    { i \in last.touched :
        /\ alerts[i].alert_type = BILL_DUE
        /\ alerts[i].entity_id = b
        /\ alerts[i].created_at = last.at }

\* C26: a pass stores a bill_due alert exactly for the user's unpaid bills due
\* between today and today + 3 days inclusive (critical when due today,
\* warning when due tomorrow, info otherwise); a bill due later or a paid bill
\* gets no alert.
C26_BillsDueUnpaidInWindow ==
    (last.op = "check_and_generate_alerts" /\ last.arg = None)
    => \A b \in db.bills :
          LET today == DateOf(last.at)
              bill == BillTable[b]
              due == /\ bill.user_id = last.uid
                     /\ ~bill.is_paid
                     /\ bill.due_date >= today
                     /\ bill.due_date <= today + 3
          IN /\ NewBillDue(b) # {} => due
             /\ \A i \in NewBillDue(b) :
                   alerts[i].severity =
                      (IF bill.due_date = today THEN "critical"
                       ELSE IF bill.due_date = today + 1 THEN "warning" ELSE "info")
             /\ (due /\ bill.is_active)
                   => \E i \in DOMAIN alerts :
                         /\ alerts[i].user_id = last.uid
                         /\ alerts[i].alert_type = BILL_DUE
                         /\ alerts[i].entity_id = b

\* an ACTIVE alert of the user with the full key of the draft, created
\* within the last 24 hours
DuplicateOf(u, alert_in) ==
    \E i \in DOMAIN alerts :
        /\ alerts[i].user_id = u
        /\ alerts[i].alert_type = alert_in.alert_type
        /\ alerts[i].entity_type = alert_in.entity_type
        /\ alerts[i].entity_id = alert_in.entity_id
        /\ alerts[i].status = ACTIVE
        /\ alerts[i].created_at >= now - 24

\* C27: the dedup lookup matches on the full key (user, alert_type,
\* entity_type, entity_id): create_alert answers 409 and stores nothing only
\* when such a duplicate exists, so a draft without an entity (or with
\* entity_id 0) is not blocked by an alert of the same type that refers to a
\* different entity; otherwise it stores the alert.
C27_ConflictOnlyOnFullKey ==
    [][\A u \in Users, a \in AlertIns :
          CreateAlert(u, a)
          => /\ calc'.ret = 409 <=> DuplicateOf(u, a)
             /\ calc'.ret = 409 => alerts' = alerts
             /\ calc'.ret # 409 => Len(alerts') = Len(alerts) + 1]_vars

\* the alerts of user u with the key of draft d created inside d's window
SameKeyInWindow(u, d) ==
    { i \in DOMAIN alerts :
        /\ alerts[i].user_id = u
        /\ alerts[i].alert_type = d.alert_type
        /\ alerts[i].entity_type = d.entity_type
        /\ alerts[i].entity_id = d.entity_id
        /\ alerts[i].created_at >= now - d.dedup }

\* C28: the dedup lookup considers only ACTIVE alerts: when every alert with
\* the draft's key inside the window is resolved, dismissed or archived and
\* the rule still produces the draft, the pass stores a new ACTIVE alert for
\* that key.
C28_TerminalAlertDoesNotSuppress ==
    [][\A u \in Users :
          CheckAndGenerate(u)
          => \A k \in DOMAIN PassDrafts(db, u, now) :
                LET d == PassDrafts(db, u, now)[k]
                IN (/\ d.dedup # None
                    /\ SameKeyInWindow(u, d) # {}
                    /\ \A i \in SameKeyInWindow(u, d) : alerts[i].status \in Terminal)
                   => \E j \in DOMAIN alerts' :
                         /\ j \notin DOMAIN alerts
                         /\ alerts'[j].user_id = u
                         /\ alerts'[j].alert_type = d.alert_type
                         /\ alerts'[j].entity_type = d.entity_type
                         /\ alerts'[j].entity_id = d.entity_id
                         /\ alerts'[j].status = ACTIVE
                         /\ alerts'[j].created_at = now]_vars

\* a pass has stored an ACTIVE alert next to a dismissed one of the same key
\* that is less than 24 hours older
C28_Witness ==
    /\ last.op = "check_and_generate_alerts"
    /\ \E i, j \in DOMAIN alerts :
          /\ i < j
          /\ j \in last.touched
          /\ alerts[i].status = DISMISSED
          /\ alerts[i].alert_type = LARGE_TRANSACTION
          /\ alerts[j].status = ACTIVE
          /\ alerts[i].user_id = alerts[j].user_id
          /\ alerts[i].alert_type = alerts[j].alert_type
          /\ alerts[i].entity_type = alerts[j].entity_type
          /\ alerts[i].entity_id = alerts[j].entity_id
          /\ alerts[j].created_at - alerts[i].created_at < 24

\* the alerts of user u that refer to transaction id as a large transaction
LargeAlertsOf(u, id) ==
    { i \in DOMAIN alerts :
        /\ alerts[i].user_id = u
        /\ alerts[i].alert_type = LARGE_TRANSACTION
        /\ alerts[i].entity_type = ET_TRANSACTION
        /\ alerts[i].entity_id = id }

\* C30: the dedup window bounds suppression in time only: for a completed
\* transaction at or above the threshold and inside the 7-day look-back, a
\* pass run more than 24 hours after the previous large_transaction alert
\* stores a further ACTIVE alert for it, so that ACTIVE alerts of one key can
\* coexist.
C30_WindowBoundsSuppression ==
    [][\A u \in Users :
          CheckAndGenerate(u)
          => \A id \in db.txns :
                (/\ TxnTable[id].user_id = u
                 /\ TxnTable[id].status = "completed"
                 /\ Abs(TxnTable[id].amount) >= 1000
                 /\ TxnTable[id].date >= now - Days(7)
                 /\ LargeAlertsOf(u, id) # {}
                 /\ \A i \in LargeAlertsOf(u, id) : alerts[i].created_at < now - 24)
                => \E j \in DOMAIN alerts' :
                      /\ j \notin DOMAIN alerts
                      /\ alerts'[j].user_id = u
                      /\ alerts'[j].alert_type = LARGE_TRANSACTION
                      /\ alerts'[j].entity_id = id
                      /\ alerts'[j].status = ACTIVE
                      /\ alerts'[j].created_at = now]_vars

\* two ACTIVE large_transaction alerts of one transaction, the later one
\* stored by a pass more than 24 hours after the earlier one
C30_Witness ==
    /\ last.op = "check_and_generate_alerts"
    /\ \E i, j \in DOMAIN alerts :
          /\ j \in last.touched
          /\ alerts[i].alert_type = LARGE_TRANSACTION
          /\ alerts[j].alert_type = LARGE_TRANSACTION
          /\ alerts[i].user_id = alerts[j].user_id
          /\ alerts[i].entity_id = alerts[j].entity_id
          /\ alerts[i].status = ACTIVE
          /\ alerts[j].status = ACTIVE
          /\ alerts[j].created_at - alerts[i].created_at > 24
          /\ TxnTable[alerts[j].entity_id].date >= alerts[j].created_at - Days(7)

(***************************************************************************)
(* Properties of the payment reward                                        *)
(***************************************************************************)
\* C29: the reward mark_bill_as_paid creates records on_time_payment = false,
\* and gets no on-time multiplier, exactly when the bill was overdue at the
\* payment; it records true exactly when the bill was paid on or before its
\* due date.
C29_OnTimeIffNotOverdue ==
    last.op = "mark_bill_as_paid"
    => \A i \in last.touched :
          LET bill == bills[rewards[i].bill_id]
              paid_in_time == DateOf(last.at) <= bill.due_date
          IN /\ rewards[i].on_time_payment <=> paid_in_time
             /\ rewards[i].points
                  = calculate_points(bill.amount_usd, paid_in_time, bill.category, 0)
====
